---- MODULE Spec2Model ----
(***************************************************************************)
(* A model of the Instruction List interpreter of src/il_interpreter.py:   *)
(* the expression evaluator, the instruction classes, the parser, the      *)
(* program loader and the fetch-execute loop of ILInterpreter.             *)
(*                                                                         *)
(* Python integers are unbounded; the interpreter masks them to 32 bits.   *)
(* A Python int is modelled here as a two's-complement number of NLimbs    *)
(* limbs in base 2^8, least significant limb first.  Every intermediate    *)
(* value of the interpreter (a sum, a difference, a product of two 32-bit  *)
(* words, a complement) has a magnitude below 2^64 and is represented      *)
(* exactly.  Text (a source line, a token, a register name) is a sequence  *)
(* of one-character strings.                                               *)
(***************************************************************************)
EXTENDS Integers, Sequences, FiniteSets, TLC

\* ------------------------------------------------------------------------
\* Python integers
\* ------------------------------------------------------------------------

\* Limbs are bytes: base 2^8.
Base == 2 ^ 8

\* Number of limbs kept by "& 0xFFFFFFFF" (32 bits).
MaskLimbs == 4

\* Number of limbs of a modelled Python int: room for the product of two
\* 32-bit words and a sign.
NLimbs == 2 * MaskLimbs + 1

Limbs == 1..NLimbs

\* The limb table f as a sequence (a table is built once, when it is made,
\* not each time a limb of it is read).
AsSeq(f) == f \o <<>>

\* The Python int n, for a small natural n.
Small(n) == AsSeq([i \in Limbs |-> IF i = 1 THEN n % Base
                             ELSE IF i = 2 THEN (n \div Base) % Base
                             ELSE IF i = 3 THEN (n \div (Base * Base)) % Base
                             ELSE 0])

Zero == Small(0)

One == Small(1)

\* The 32-bit word with bytes b3 b2 b1 b0 (most significant first), as
\* written in hexadecimal: Word(255,255,255,254) is 16#FFFFFFFE.
Word(b3, b2, b1, b0) == AsSeq([i \in Limbs |-> IF i = 1 THEN b0
                                         ELSE IF i = 2 THEN b1
                                         ELSE IF i = 3 THEN b2
                                         ELSE IF i = 4 THEN b3
                                         ELSE 0])

\* Carry into limb i of x + y + c0.
RECURSIVE CarryIn(_, _, _, _)
CarryIn(x, y, c0, i) ==
    IF i = 1 THEN c0
    ELSE (x[i - 1] + y[i - 1] + CarryIn(x, y, c0, i - 1)) \div Base

AddWithCarry(x, y, c0) ==
    AsSeq([i \in Limbs |-> (x[i] + y[i] + CarryIn(x, y, c0, i)) % Base])

\* Python's x + y.
PyAdd(x, y) == AddWithCarry(x, y, 0)

\* Python's ~x.
PyInvert(x) == AsSeq([i \in Limbs |-> Base - 1 - x[i]])

\* Python's x - y  (x + ~y + 1).
PySub(x, y) == AddWithCarry(x, PyInvert(y), 1)

\* Bitwise operations on one limb.
RECURSIVE LimbAnd(_, _)
LimbAnd(a, b) ==
    IF a = 0 \/ b = 0 THEN 0
    ELSE (a % 2) * (b % 2) + 2 * LimbAnd(a \div 2, b \div 2)

RECURSIVE LimbOr(_, _)
LimbOr(a, b) ==
    IF a = 0 THEN b
    ELSE IF b = 0 THEN a
    ELSE (IF a % 2 = 1 \/ b % 2 = 1 THEN 1 ELSE 0) + 2 * LimbOr(a \div 2, b \div 2)

RECURSIVE LimbXor(_, _)
LimbXor(a, b) ==
    IF a = 0 THEN b
    ELSE IF b = 0 THEN a
    ELSE ((a + b) % 2) + 2 * LimbXor(a \div 2, b \div 2)

\* Python's x & y, x | y, x ^ y.
PyAnd(x, y) == AsSeq([i \in Limbs |-> LimbAnd(x[i], y[i])])

PyOr(x, y) == AsSeq([i \in Limbs |-> LimbOr(x[i], y[i])])

PyXor(x, y) == AsSeq([i \in Limbs |-> LimbXor(x[i], y[i])])

\* Column k of the schoolbook product: the sum of x[i] * y[j], i + j = k + 1.
RECURSIVE ColumnSum(_, _, _, _)
ColumnSum(x, y, k, i) ==
    IF i > k THEN 0
    ELSE x[i] * y[k + 1 - i] + ColumnSum(x, y, k, i + 1)

RECURSIVE MulCarry(_, _, _)
MulCarry(x, y, k) ==
    IF k = 1 THEN 0
    ELSE (ColumnSum(x, y, k - 1, 1) + MulCarry(x, y, k - 1)) \div Base

\* Python's x * y.
PyMul(x, y) ==
    AsSeq([k \in Limbs |-> (ColumnSum(x, y, k, 1) + MulCarry(x, y, k)) % Base])

\* x >= y, for non-negative x and y.
RECURSIVE GeqFrom(_, _, _)
GeqFrom(x, y, i) ==
    IF i = 0 THEN TRUE
    ELSE IF x[i] > y[i] THEN TRUE
    ELSE IF x[i] < y[i] THEN FALSE
    ELSE GeqFrom(x, y, i - 1)

PyGeq(x, y) == GeqFrom(x, y, NLimbs)

\* 2^8 * x + limb.
PushLimb(x, limb) == <<limb>> \o SubSeq(x, 1, NLimbs - 1)

\* The largest digit d + e, e < 2^(bit+1), with (d + e) * y <= r.
RECURSIVE QDigit(_, _, _, _)
QDigit(r, y, bit, d) ==
    IF bit < 0 THEN d
    ELSE IF PyGeq(r, PyMul(y, Small(d + 2 ^ bit)))
         THEN QDigit(r, y, bit - 1, d + 2 ^ bit)
         ELSE QDigit(r, y, bit - 1, d)

\* Long division, limb by limb, of the limbs i.. of x by y (both
\* non-negative, y non-zero): quotient and remainder.
RECURSIVE DivFrom(_, _, _)
DivFrom(x, y, i) ==
    IF i > NLimbs THEN [quot |-> Zero, rem |-> Zero]
    ELSE LET p == DivFrom(x, y, i + 1)
             r1 == PushLimb(p.rem, x[i])
             d == QDigit(r1, y, 7, 0)
         IN  [quot |-> PushLimb(p.quot, d),
              rem |-> PySub(r1, PyMul(y, Small(d)))]

DivMod(x, y) == DivFrom(x, y, 1)

\* Python's x // y and x % y for non-negative x and positive y (the only
\* operands the interpreter divides: both are masked to 32 bits).
PyFloorDiv(x, y) == DivMod(x, y).quot

PyMod(x, y) == DivMod(x, y).rem

\* Python's x & 0xFFFFFFFF: the low 32 bits, as a non-negative int.
Mask32(x) == AsSeq([i \in Limbs |-> IF i <= MaskLimbs THEN x[i] ELSE 0])

\* ------------------------------------------------------------------------
\* Python values held by the register table: int or bool
\* ------------------------------------------------------------------------

PyInt(x) == [t |-> "int", v |-> x]

PyBool(b) == [t |-> "bool", v |-> IF b THEN One ELSE Zero]

PyTrue == PyBool(TRUE)

PyFalse == PyBool(FALSE)

\* Python's truth value of an int or a bool: non-zero.
Truthy(val) == val.v # Zero

\* Python's a == b on ints and bools (True == 1, False == 0).
PyEq(a, b) == a.v = b.v

\* A mask applied to values whose type is exactly int: a bool passes
\* through unchanged.
AndMask_exact_int(val) == IF val.t = "int" THEN PyInt(Mask32(val.v)) ELSE val

\* Python's val & 0xFFFFFFFF: an int, also when val is a bool.
AndMask(val) == PyInt(Mask32(val.v))

\* ------------------------------------------------------------------------
\* Text: a str is a sequence of one-character strings
\* ------------------------------------------------------------------------

\* Whitespace characters that have no escape in a string: each is written
\* raw between the quotes.  The vertical tab (0x0b):
VerticalTab == ""

\* The file, group, record and unit separators (0x1c..0x1f):
FileSeparator == ""

GroupSeparator == ""

RecordSeparator == ""

UnitSeparator == ""

\* The next-line control (0x85), the no-break space (0xa0) and the Ogham
\* space mark (0x1680):
NextLine == ""

NoBreakSpace == " "

OghamSpace == " "

\* c.isspace(), the whitespace of str.strip(), str.split() and int(): the
\* space, the tab, the newline, the carriage return, the form feed and the
\* characters above.  Python's remaining whitespace (the spaces 0x2000 to
\* 0x200a, 0x2028, 0x2029, 0x202f, 0x205f and 0x3000) cannot be written in a
\* string of this module, and no text of the model holds it.
IsSpace(c) ==
    c \in {" ", "\t", "\r", "\n", "\f", VerticalTab, FileSeparator, GroupSeparator,
           RecordSeparator, UnitSeparator, NextLine, NoBreakSpace, OghamSpace}

\* str.strip()
RECURSIVE LStrip(_)
LStrip(s) == IF s # <<>> /\ IsSpace(Head(s)) THEN LStrip(Tail(s)) ELSE s

RECURSIVE RStrip(_)
RStrip(s) ==
    IF s # <<>> /\ IsSpace(s[Len(s)]) THEN RStrip(SubSeq(s, 1, Len(s) - 1)) ELSE s

Strip(s) == RStrip(LStrip(s))

\* c in s
Contains(s, c) == \E i \in 1..Len(s) : s[i] = c

\* Index of the first c in s (s contains c).
RECURSIVE IndexOf(_, _, _)
IndexOf(s, c, i) == IF s[i] = c THEN i ELSE IndexOf(s, c, i + 1)

\* s.split(c): the pieces of s between the occurrences of c, empty ones kept.
RECURSIVE SplitOn(_, _)
SplitOn(s, c) ==
    IF ~Contains(s, c) THEN <<s>>
    ELSE LET i == IndexOf(s, c, 1)
         IN  <<SubSeq(s, 1, i - 1)>> \o SplitOn(SubSeq(s, i + 1, Len(s)), c)

\* s.split(c, 1) for an s that contains c: the text before the first c and
\* the text after it.
SplitFirst(s, c) ==
    LET i == IndexOf(s, c, 1)
    IN  <<SubSeq(s, 1, i - 1), SubSeq(s, i + 1, Len(s))>>

\* Length of the longest prefix of s without whitespace.
RECURSIVE WordLen(_, _)
WordLen(s, n) ==
    IF n < Len(s) /\ ~IsSpace(s[n + 1]) THEN WordLen(s, n + 1) ELSE n

\* s.split(): the maximal runs of non-whitespace characters of s.
RECURSIVE SplitWs(_)
SplitWs(s) ==
    LET t == LStrip(s)
    IN  IF t = <<>> THEN <<>>
        ELSE LET n == WordLen(t, 0)
             IN  <<SubSeq(t, 1, n)>> \o SplitWs(SubSeq(t, n + 1, Len(t)))

\* s.startswith(p)
StartsWith(s, p) == Len(s) >= Len(p) /\ SubSeq(s, 1, Len(p)) = p

\* The decimal digits of Unicode, in the order of their values: entry v + 1
\* holds the characters whose decimal value is v, the ASCII digit first and
\* then the digits of the other scripts (Extended Arabic-Indic, NKo,
\* Bengali, Gujarati, Tamil, ...).  The digits of the remaining scripts
\* (Arabic-Indic, Devanagari, Thai, ...) cannot be written in a string of
\* this module, and no text of the model holds them.
DecimalDigits ==
    <<{"0", "۰", "߀", "০", "૦", "௦", "೦", "෦", "໐", "႐", "០", "᧐", "᪀",
       "᪐", "᮰", "꣐", "꧐", "꧰", "꯰"},
      {"1", "۱", "߁", "১", "૧", "௧", "೧", "෧", "໑", "႑", "១", "᧑", "᪁",
       "᪑", "᮱", "꣑", "꧑", "꧱", "꯱"},
      {"2", "۲", "߂", "২", "૨", "௨", "೨", "෨", "໒", "႒", "២", "᧒", "᪂",
       "᪒", "᮲", "꣒", "꧒", "꧲", "꯲"},
      {"3", "۳", "߃", "৩", "૩", "௩", "೩", "෩", "໓", "႓", "៣", "᧓", "᪃",
       "᪓", "᮳", "꣓", "꧓", "꧳", "꯳"},
      {"4", "۴", "߄", "৪", "૪", "௪", "೪", "෪", "໔", "႔", "៤", "᧔", "᪄",
       "᪔", "᮴", "꣔", "꧔", "꧴", "꯴"},
      {"5", "۵", "߅", "৫", "૫", "௫", "೫", "෫", "໕", "႕", "៥", "᧕", "᪅",
       "᪕", "᮵", "꣕", "꧕", "꧵", "꯵"},
      {"6", "۶", "߆", "৬", "૬", "௬", "೬", "෬", "໖", "႖", "៦", "᧖", "᪆",
       "᪖", "᮶", "꣖", "꧖", "꧶", "꯶"},
      {"7", "۷", "߇", "৭", "૭", "௭", "೭", "෭", "໗", "႗", "៧", "᧗", "᪇",
       "᪗", "᮷", "꣗", "꧗", "꧷", "꯷"},
      {"8", "۸", "߈", "৮", "૮", "௮", "೮", "෮", "໘", "႘", "៨", "᧘", "᪈",
       "᪘", "᮸", "꣘", "꧘", "꧸", "꯸"},
      {"9", "۹", "߉", "৯", "૯", "௯", "೯", "෯", "໙", "႙", "៩", "᧙", "᪉",
       "᪙", "᮹", "꣙", "꧙", "꧹", "꯹"}>>

\* The characters int() reads as a decimal digit.
DecDigits == UNION {DecimalDigits[i] : i \in 1..Len(DecimalDigits)}

\* The characters that are digits to str.isdigit() without being decimal
\* digits: superscripts, subscripts and circled or dotted digits.  int()
\* refuses them.
OtherDigits ==
    {"²", "³", "¹", "᧚", "₀", "₁", "₂", "₃", "₄", "₅", "₆", "₇", "₈",
     "₉", "⒈", "⒉", "⒊", "⒋", "⒌", "⒍", "⒎", "⒏", "⒐", "⓪", "⓵", "⓶",
     "⓷", "⓸", "⓹", "⓺", "⓻", "⓼", "⓽", "⓿", "➀", "➁", "➂", "➃", "➄",
     "➅", "➆", "➇", "➈", "➊", "➋", "➌", "➍", "➎", "➏", "➐", "➑", "➒"}

\* The characters int(text, 16) reads as a digit.
HexDigits == DecDigits \cup {"A", "B", "C", "D", "E", "F", "a", "b", "c", "d", "e", "f"}

\* s.isdigit(): s is not empty and each of its characters is a digit.
IsDigit(s) == s # <<>> /\ \A i \in 1..Len(s) : s[i] \in DecDigits \cup OtherDigits

\* The value int() gives a digit: its decimal value, or 10 to 15 for a letter.
DigitValue(c) ==
    CASE c \in DecDigits -> (CHOOSE v \in 0..9 : c \in DecimalDigits[v + 1])
      [] c \in {"A", "a"} -> 10 [] c \in {"B", "b"} -> 11
      [] c \in {"C", "c"} -> 12 [] c \in {"D", "d"} -> 13
      [] c \in {"E", "e"} -> 14 [] c \in {"F", "f"} -> 15
      [] OTHER -> 0

\* The whitespace int() skips around a number: that of str.strip() without
\* the four separators 0x1c..0x1f, which int() refuses.
IsIntSpace(c) ==
    IsSpace(c) /\ c \notin {FileSeparator, GroupSeparator, RecordSeparator, UnitSeparator}

RECURSIVE IntLStrip(_)
IntLStrip(s) == IF s # <<>> /\ IsIntSpace(Head(s)) THEN IntLStrip(Tail(s)) ELSE s

RECURSIVE IntRStrip(_)
IntRStrip(s) ==
    IF s # <<>> /\ IsIntSpace(s[Len(s)]) THEN IntRStrip(SubSeq(s, 1, Len(s) - 1)) ELSE s

\* The text int() reads: s without the whitespace around it.
IntStrip(s) == IntRStrip(IntLStrip(s))

\* The text without a leading sign.
DropSign(t) == IF t # <<>> /\ t[1] \in {"+", "-"} THEN Tail(t) ELSE t

\* The text starts with a minus sign.
IsNegative(t) == t # <<>> /\ t[1] = "-"

\* The text starts with the base prefix int(s, 16) skips: a zero digit and
\* x or X.
HasBasePrefix(u, digits) ==
    digits = HexDigits /\ Len(u) >= 2 /\ u[1] \in DecimalDigits[1] /\ u[2] \in {"x", "X"}

\* The text without the one underscore allowed after the base prefix.
DropUnderscore(p) == IF p # <<>> /\ p[1] = "_" THEN Tail(p) ELSE p

\* The digit groups of an unsigned text: what follows the base prefix.
IntBody(u, digits) ==
    IF HasBasePrefix(u, digits) THEN DropUnderscore(SubSeq(u, 3, Len(u))) ELSE u

\* Digits of the base with single underscores between them.
DigitGroups(b, digits) ==
    /\ b # <<>>
    /\ b[1] \in digits
    /\ b[Len(b)] \in digits
    /\ \A i \in 1..Len(b) : b[i] \in digits \cup {"_"}
    /\ \A i \in 1..(Len(b) - 1) : ~(b[i] = "_" /\ b[i + 1] = "_")

\* int(s, base) accepts s: after the whitespace around it, the sign and
\* (base 16) the prefix, digits of the base with single underscores between
\* them.
IntAccepts(s, digits) == DigitGroups(IntBody(DropSign(IntStrip(s)), digits), digits)

\* The number the first n digits of s denote, most significant digit first.
RECURSIVE ParseDigits(_, _, _)
ParseDigits(s, n, base) ==
    IF n = 0 THEN Zero
    ELSE PyAdd(PyMul(ParseDigits(s, n - 1, base), Small(base)),
               Small(DigitValue(s[n])))

\* A character of the digit groups that is a digit.
IsDigitChar(c) == c # "_"

\* The number a run of digits denotes.
DigitsValue(d, base) == ParseDigits(d, Len(d), base)

\* The number digit groups denote: the digits without their underscores.
Magnitude(b, base) == DigitsValue(SelectSeq(b, IsDigitChar), base)

\* The digits of the base.
BaseDigits(base) == IF base = 16 THEN HexDigits ELSE DecDigits

\* x, negated after a minus sign.
Negated(negative, x) == IF negative THEN PySub(Zero, x) ELSE x

\* The number a stripped text denotes.
Signed(t, base) ==
    Negated(IsNegative(t), Magnitude(IntBody(DropSign(t), BaseDigits(base)), base))

\* int(s, base) for an accepted s.
ParseInt(s, base) == Signed(IntStrip(s), base)

\* int(s) refuses a decimal text of more than 4300 digits with a ValueError
\* (the runtime's limit on conversions in a base that is no power of two).
TooManyDigits(s) == Len(s) > 4300

\* ------------------------------------------------------------------------
\* The machine
\* ------------------------------------------------------------------------

VARIABLES
    source,           \* the text handed to load_program
    registers,        \* ILInterpreter.registers: name -> Python value
    program,          \* ILInterpreter.program: the commands, in order
    program_counter,  \* ILInterpreter.program_counter
    labels,           \* ILInterpreter.labels: label -> index into program
    state,            \* where the caller is: constructed, loaded, running, ...
    error,            \* the exception that left load_program or run, or "none"
    fetched,          \* history: the indices run has fetched, oldest first
    runs              \* history: the number of calls of run so far

vars == <<source, registers, program, program_counter, labels, state, error,
          fetched, runs>>

\* The register name 'ACC'.
ACC == <<"A", "C", "C">>

\* The literal prefix '16#'.
HexPrefix == <<"1", "6", "#">>

\* An empty dict.
EmptyDict == [k \in {} |-> 0]

\* d[k] = v
Put(d, k, v) == [x \in (DOMAIN d) \cup {k} |-> IF x = k THEN v ELSE d[x]]

\* What a call of evaluate_expression gives: the exception that leaves it
\* (or "none") and the int it returns.
Evaluated(raised, value) == [raised |-> raised, value |-> value]

\* The try block of evaluate_expression: int() raises ValueError for text
\* that is no number, and the final else raises it for an unknown name.
try_evaluate(regs, expression) ==
    IF IsDigit(expression)
    THEN IF IntAccepts(expression, DecDigits) /\ ~TooManyDigits(expression)
         THEN Evaluated("none", Mask32(ParseInt(expression, 10)))
         ELSE Evaluated("ValueError", Zero)
    ELSE IF StartsWith(expression, HexPrefix)
    THEN LET digits == SubSeq(expression, Len(HexPrefix) + 1, Len(expression))
         IN  IF IntAccepts(digits, HexDigits)
             THEN Evaluated("none", Mask32(ParseInt(digits, 16)))
             ELSE Evaluated("ValueError", Zero)
    ELSE IF expression \in DOMAIN regs
    THEN Evaluated("none", Mask32(regs[expression].v))
    ELSE Evaluated("ValueError", Zero)

\* An evaluate_expression without the except clause (the evaluator of
\* src/classes.py): the ValueError leaves the method.
evaluate_expression_uncaught(regs, expression) == try_evaluate(regs, expression)

\* ILInterpreter.evaluate_expression: the ValueError of the try block is
\* caught by the method itself, which prints it and returns 0.
evaluate_expression(regs, expression) ==
    LET tried == try_evaluate(regs, expression)
    IN  IF tried.raised = "ValueError" THEN Evaluated("none", Zero) ELSE tried

\* A debug_registers that only prints the table.
debug_registers_print_only(regs) == regs

\* ILInterpreter.debug_registers: every value of the table is masked (a bool
\* is an instance of int, and bool & int is an int).
debug_registers(regs) == [k \in DOMAIN regs |-> AndMask(regs[k])]

\* What executing a command's body gives: the exception raised (or "none"),
\* the register table and the program counter it leaves.
Outcome(raised, regs, pc) == [raised |-> raised, registers |-> regs, pc |-> pc]

\* LoadCommand.execute
LoadCommand(regs, pc, expression) ==
    LET e == evaluate_expression(regs, expression)
    IN  IF e.raised # "none" THEN Outcome(e.raised, regs, pc)
        ELSE Outcome("none", Put(regs, ACC, PyInt(Mask32(e.value))), pc)

\* An ST that copies the wrong way: the variable into ACC.
StoreCommand_reversed(regs, pc, variable) ==
    IF variable \in DOMAIN regs THEN Outcome("none", Put(regs, ACC, regs[variable]), pc)
    ELSE Outcome("KeyError", regs, pc)

\* StoreCommand.execute
StoreCommand(regs, pc, variable) ==
    Outcome("none", Put(regs, variable, regs[ACC]), pc)

\* The apply_operation of each BinaryCommand subclass: the exception raised
\* and the new value of registers['ACC'].
Applied(raised, acc) == [raised |-> raised, acc |-> acc]

AndCommand(acc, value) == Applied("none", PyInt(Mask32(PyAnd(acc.v, value))))

OrCommand(acc, value) == Applied("none", PyInt(Mask32(PyOr(acc.v, value))))

AddCommand(acc, value) == Applied("none", PyInt(Mask32(PyAdd(acc.v, value))))

\* A SUB with its operands the wrong way round.
SubCommand_swapped(acc, value) == Applied("none", PyInt(Mask32(PySub(value, acc.v))))

SubCommand(acc, value) == Applied("none", PyInt(Mask32(PySub(acc.v, value))))

AndnCommand(acc, value) ==
    LET inverted_value == Mask32(PyInvert(value))
    IN  Applied("none", PyInt(Mask32(PyAnd(acc.v, inverted_value))))

\* An ORN that complements the result of the OR (a NOR), not the operand.
OrnCommand_nor(acc, value) ==
    Applied("none", PyInt(Mask32(PyInvert(PyOr(acc.v, value)))))

OrnCommand(acc, value) ==
    LET inverted_value == Mask32(PyInvert(value))
    IN  Applied("none", PyInt(Mask32(PyOr(acc.v, inverted_value))))

XorCommand(acc, value) == Applied("none", PyInt(PyXor(acc.v, value)))

XornCommand(acc, value) ==
    LET inverted_value == Mask32(PyInvert(value))
    IN  Applied("none", PyInt(Mask32(PyXor(acc.v, inverted_value))))

MulCommand(acc, value) == Applied("none", PyInt(PyMul(acc.v, value)))

\* A DIV that yields 0 for a zero divisor.
DivCommand_zero_guard(acc, value) ==
    IF value = Zero THEN Applied("none", PyInt(Zero))
    ELSE Applied("none", PyInt(PyFloorDiv(acc.v, value)))

DivCommand(acc, value) ==
    IF value = Zero THEN Applied("ZeroDivisionError", acc)
    ELSE Applied("none", PyInt(PyFloorDiv(acc.v, value)))

ModCommand(acc, value) ==
    IF value = Zero THEN Applied("ZeroDivisionError", acc)
    ELSE Applied("none", PyInt(PyMod(acc.v, value)))

\* The classes that inherit BinaryCommand.execute.
BinaryClasses == {"AndCommand", "OrCommand", "AddCommand", "SubCommand",
                  "OrnCommand", "XorCommand", "XornCommand", "MulCommand",
                  "DivCommand", "ModCommand"}

\* The classes that inherit NotBinaryCommand.execute.
NotBinaryClasses == {"AndnCommand"}

\* self.apply_operation(interpreter, value), by the class of self.
apply_operation(cls, acc, value) ==
    CASE cls = "AndCommand" -> AndCommand(acc, value)
      [] cls = "OrCommand" -> OrCommand(acc, value)
      [] cls = "AddCommand" -> AddCommand(acc, value)
      [] cls = "SubCommand" -> SubCommand(acc, value)
      [] cls = "AndnCommand" -> AndnCommand(acc, value)
      [] cls = "OrnCommand" -> OrnCommand(acc, value)
      [] cls = "XorCommand" -> XorCommand(acc, value)
      [] cls = "XornCommand" -> XornCommand(acc, value)
      [] cls = "MulCommand" -> MulCommand(acc, value)
      [] cls = "DivCommand" -> DivCommand(acc, value)
      [] cls = "ModCommand" -> ModCommand(acc, value)

\* BinaryCommand.execute
BinaryCommand(cls, regs, pc, expression) ==
    LET e == evaluate_expression(regs, expression)
        value == Mask32(e.value)
        done == apply_operation(cls, regs[ACC], value)
    IN  IF e.raised # "none" THEN Outcome(e.raised, regs, pc)
        ELSE IF done.raised # "none" THEN Outcome(done.raised, regs, pc)
        ELSE Outcome("none", Put(regs, ACC, AndMask(done.acc)), pc)

\* NotBinaryCommand.execute: as BinaryCommand.execute, without the final mask.
NotBinaryCommand(cls, regs, pc, expression) ==
    LET e == evaluate_expression(regs, expression)
        value == Mask32(e.value)
        done == apply_operation(cls, regs[ACC], value)
    IN  IF e.raised # "none" THEN Outcome(e.raised, regs, pc)
        ELSE IF done.raised # "none" THEN Outcome(done.raised, regs, pc)
        ELSE Outcome("none", Put(regs, ACC, done.acc), pc)

\* A NOT that negates the truth value of ACC (the NotCommand of
\* src/classes.py).
NotCommand_logical(regs, pc) ==
    Outcome("none", Put(regs, ACC, PyBool(~Truthy(regs[ACC]))), pc)

\* NotCommand.execute
NotCommand(regs, pc) ==
    Outcome("none", Put(regs, ACC, PyInt(Mask32(PyInvert(regs[ACC].v)))), pc)

\* SCommand.apply_operation / RCommand.apply_operation
SCommand(regs, variable) == Put(regs, variable, PyTrue)

\* An R that resets by deleting the variable from the table.
RCommand_delete(regs, variable) == [k \in DOMAIN regs \ {variable} |-> regs[k]]

RCommand(regs, variable) == Put(regs, variable, PyFalse)

ConditionalClasses == {"SCommand", "RCommand"}

\* An S/R that does not test ACC.
ConditionalCommand_unconditional(cls, regs, pc, variable) ==
    Outcome("none",
            IF cls = "SCommand" THEN SCommand(regs, variable)
            ELSE RCommand(regs, variable),
            pc)

\* ConditionalCommand.execute
ConditionalCommand(cls, regs, pc, variable) ==
    IF Truthy(regs[ACC])
    THEN Outcome("none",
                 IF cls = "SCommand" THEN SCommand(regs, variable)
                 ELSE RCommand(regs, variable),
                 pc)
    ELSE Outcome("none", regs, pc)

\* A jump that sets the program counter to the label's index itself.
JumpTo_no_decrement(labs, regs, pc, label) ==
    IF label \in DOMAIN labs THEN Outcome("none", regs, labs[label])
    ELSE Outcome("KeyError", regs, pc)

\* A jump that ignores a label it does not find.
JumpTo_ignore_missing(labs, regs, pc, label) ==
    IF label \in DOMAIN labs THEN Outcome("none", regs, labs[label] - 1)
    ELSE Outcome("none", regs, pc)

\* The assignment of the three jumps:
\* interpreter.program_counter = interpreter.labels[self.label] - 1
JumpTo(labs, regs, pc, label) ==
    IF label \in DOMAIN labs THEN Outcome("none", regs, labs[label] - 1)
    ELSE Outcome("KeyError", regs, pc)

\* A JMP with a guard against loops: a jump to a label at or before the
\* JMP itself is not taken.
JmpCommand_forward_only(labs, regs, pc, label) ==
    IF label \in DOMAIN labs /\ labs[label] <= pc THEN Outcome("none", regs, pc)
    ELSE JumpTo(labs, regs, pc, label)

\* JmpCommand.execute
JmpCommand(labs, regs, pc, label) == JumpTo(labs, regs, pc, label)

\* A JMPC that jumps when ACC is zero.
JmpcCommand_inverted(labs, regs, pc, label) ==
    IF ~Truthy(regs[ACC])
    THEN IF label \in DOMAIN labs THEN Outcome("none", regs, labs[label] - 1)
         ELSE Outcome("KeyError", regs, pc)
    ELSE Outcome("none", regs, pc)

\* JmpcCommand.execute
JmpcCommand(labs, regs, pc, label) ==
    IF Truthy(regs[ACC]) THEN JumpTo(labs, regs, pc, label)
    ELSE Outcome("none", regs, pc)

\* JmpncCommand.execute
JmpncCommand(labs, regs, pc, label) ==
    IF ~Truthy(regs[ACC]) THEN JumpTo(labs, regs, pc, label)
    ELSE Outcome("none", regs, pc)

\* command.execute(self), by the class of the command: the body under the
\* debug_decorator.
execute(command, labs, regs, pc) ==
    CASE command.cls = "LoadCommand" -> LoadCommand(regs, pc, command.arg)
      [] command.cls = "StoreCommand" -> StoreCommand(regs, pc, command.arg)
      [] command.cls \in BinaryClasses ->
            BinaryCommand(command.cls, regs, pc, command.arg)
      [] command.cls \in NotBinaryClasses ->
            NotBinaryCommand(command.cls, regs, pc, command.arg)
      [] command.cls = "NotCommand" -> NotCommand(regs, pc)
      [] command.cls \in ConditionalClasses ->
            ConditionalCommand(command.cls, regs, pc, command.arg)
      [] command.cls = "JmpCommand" -> JmpCommand(labs, regs, pc, command.arg)
      [] command.cls = "JmpcCommand" -> JmpcCommand(labs, regs, pc, command.arg)
      [] command.cls = "JmpncCommand" -> JmpncCommand(labs, regs, pc, command.arg)

\* ------------------------------------------------------------------------
\* The parser and the loader
\* ------------------------------------------------------------------------

\* The mnemonics, as text.
mLD == <<"L", "D">>

mST == <<"S", "T">>

mAND == <<"A", "N", "D">>

mANDN == <<"A", "N", "D", "N">>

mOR == <<"O", "R">>

mORN == <<"O", "R", "N">>

mXOR == <<"X", "O", "R">>

mXORN == <<"X", "O", "R", "N">>

mADD == <<"A", "D", "D">>

mSUB == <<"S", "U", "B">>

mMUL == <<"M", "U", "L">>

mDIV == <<"D", "I", "V">>

mMOD == <<"M", "O", "D">>

mNOT == <<"N", "O", "T">>

mS == <<"S">>

mR == <<"R">>

mJMP == <<"J", "M", "P">>

mJMPC == <<"J", "M", "P", "C">>

mJMPNC == <<"J", "M", "P", "N", "C">>

Mnemonics == {mLD, mST, mAND, mANDN, mOR, mORN, mXOR, mXORN, mADD, mSUB, mMUL, mDIV, mMOD, mNOT, mS, mR, mJMP, mJMPC, mJMPNC}

\* The command_map of ILParser.parse, for a mnemonic it holds.
command_map(command) ==
    CASE command = mLD -> "LoadCommand"
      [] command = mST -> "StoreCommand"
      [] command = mAND -> "AndCommand"
      [] command = mANDN -> "AndnCommand"
      [] command = mOR -> "OrCommand"
      [] command = mORN -> "OrnCommand"
      [] command = mXOR -> "XorCommand"
      [] command = mXORN -> "XornCommand"
      [] command = mADD -> "AddCommand"
      [] command = mSUB -> "SubCommand"
      [] command = mMUL -> "MulCommand"
      [] command = mDIV -> "DivCommand"
      [] command = mMOD -> "ModCommand"
      [] command = mNOT -> "NotCommand"
      [] command = mS -> "SCommand"
      [] command = mR -> "RCommand"
      [] command = mJMP -> "JmpCommand"
      [] command = mJMPC -> "JmpcCommand"
      [] command = mJMPNC -> "JmpncCommand"

\* A command object: its class and the operand its constructor stored (the
\* empty text for NotCommand, which stores none).
Command(cls, arg) == [cls |-> cls, arg |-> arg]

\* The number of arguments the constructor of a class takes.
Arity(cls) == IF cls = "NotCommand" THEN 0 ELSE 1

\* ILParser.parse: the command of a non-empty stripped line, or the
\* exception raised: ValueError for an unknown mnemonic, TypeError when the
\* constructor is called with the wrong number of arguments.
ILParser_parse(line) ==
    LET parts == SplitWs(line)
        command == parts[1]
        args == Tail(parts)
    IN  IF command \in Mnemonics
        THEN LET cls == command_map(command)
             IN  IF Len(args) # Arity(cls)
                 THEN [raised |-> "TypeError", cmd |-> Command(cls, <<>>)]
                 ELSE [raised |-> "none",
                       cmd |-> Command(cls, IF args = <<>> THEN <<>> ELSE args[1])]
        ELSE [raised |-> "ValueError", cmd |-> Command("none", <<>>)]

\* The lines of load_program: the stripped lines of the text that are not
\* empty.
RECURSIVE StripAll(_)
StripAll(ls) ==
    IF ls = <<>> THEN <<>>
    ELSE LET l == Strip(Head(ls))
         IN  (IF l = <<>> THEN <<>> ELSE <<l>>) \o StripAll(Tail(ls))

ProgramLines(text) == StripAll(SplitOn(text, "\n"))

\* The loop of load_program from line i on, with the program and the labels
\* built so far: what the machine holds when the loop ends or raises.
RECURSIVE LoadLoop(_, _, _, _)

\* A loop that gives a label the index of its line (the idx of enumerate)
\* instead of the length of the program.
LoadLoop_line_index(lines, i, prog, labs) ==
    IF i > Len(lines) THEN [raised |-> "none", program |-> prog, labels |-> labs]
    ELSE LET hasLabel == Contains(lines[i], ":")
             split == SplitFirst(lines[i], ":")
             labs1 == IF hasLabel THEN Put(labs, Strip(split[1]), i - 1) ELSE labs
             line == IF hasLabel THEN Strip(split[2]) ELSE lines[i]
         IN  IF line = <<>> THEN LoadLoop(lines, i + 1, prog, labs1)
             ELSE LET parsed == ILParser_parse(line)
                  IN  IF parsed.raised # "none"
                      THEN [raised |-> parsed.raised, program |-> prog, labels |-> labs1]
                      ELSE LoadLoop(lines, i + 1, Append(prog, parsed.cmd), labs1)

LoadLoop(lines, i, prog, labs) ==
    IF i > Len(lines) THEN [raised |-> "none", program |-> prog, labels |-> labs]
    ELSE LET hasLabel == Contains(lines[i], ":")
             split == SplitFirst(lines[i], ":")
             labs1 == IF hasLabel THEN Put(labs, Strip(split[1]), Len(prog)) ELSE labs
             line == IF hasLabel THEN Strip(split[2]) ELSE lines[i]
         IN  IF line = <<>> THEN LoadLoop(lines, i + 1, prog, labs1)
             ELSE LET parsed == ILParser_parse(line)
                  IN  IF parsed.raised # "none"
                      THEN [raised |-> parsed.raised, program |-> prog, labels |-> labs1]
                      ELSE LoadLoop(lines, i + 1, Append(prog, parsed.cmd), labs1)

\* ILInterpreter.load_program
load_program(text, prog, labs) == LoadLoop(ProgramLines(text), 1, prog, labs)

\* ------------------------------------------------------------------------
\* The run loop
\* ------------------------------------------------------------------------

\* Bound on the number of instructions fetched in one behaviour.
MaxSteps == 24

\* Bound on the number of calls of run in one behaviour.
MaxRuns == 2

\* self.program[self.program_counter]: Python counts a negative index from
\* the end of the list.
FetchIndex ==
    IF program_counter >= 0 THEN program_counter + 1
    ELSE Len(program) + program_counter + 1

CurrentCommand == program[FetchIndex]

\* The loop of run is about to execute a command of one of the classes.
Fetching(classes) ==
    /\ state = "running"
    /\ program_counter < Len(program)
    /\ FetchIndex >= 1
    /\ Len(fetched) < MaxSteps
    /\ CurrentCommand.cls \in classes

\* A turn that does not increment the program counter after a command that
\* has set it: a jump leaves labels[label] - 1 for the next turn.
Turn_no_increment_after_jump(outcome) ==
    /\ fetched' = Append(fetched, program_counter)
    /\ IF outcome.raised # "none"
       THEN /\ state' = "run_failed"
            /\ error' = outcome.raised
            /\ registers' = outcome.registers
            /\ program_counter' = outcome.pc
       ELSE /\ registers' = debug_registers(outcome.registers)
            /\ program_counter' =
                   IF outcome.pc # program_counter THEN outcome.pc ELSE outcome.pc + 1
            /\ UNCHANGED <<state, error>>
    /\ UNCHANGED <<source, program, labels, runs>>

\* A turn without the increment of the program counter.
Turn_no_increment(outcome) ==
    /\ fetched' = Append(fetched, program_counter)
    /\ IF outcome.raised # "none"
       THEN /\ state' = "run_failed"
            /\ error' = outcome.raised
            /\ registers' = outcome.registers
            /\ program_counter' = outcome.pc
       ELSE /\ registers' = debug_registers(outcome.registers)
            /\ program_counter' = outcome.pc
            /\ UNCHANGED <<state, error>>
    /\ UNCHANGED <<source, program, labels, runs>>

\* One turn of the loop of run, given the outcome of the command's body:
\* the debug_decorator wrapper calls debug_registers when the body returns,
\* then run increments the program counter; an exception leaves both the
\* wrapper and run at once.
Turn(outcome) ==
    /\ fetched' = Append(fetched, program_counter)
    /\ IF outcome.raised # "none"
       THEN /\ state' = "run_failed"
            /\ error' = outcome.raised
            /\ registers' = outcome.registers
            /\ program_counter' = outcome.pc
       ELSE /\ registers' = debug_registers(outcome.registers)
            /\ program_counter' = outcome.pc + 1
            /\ UNCHANGED <<state, error>>
    /\ UNCHANGED <<source, program, labels, runs>>

\* load_program(source), called once on the new machine.
LoadProgram ==
    /\ state = "constructed"
    /\ LET loaded == load_program(source, program, labels)
       IN  /\ program' = loaded.program
           /\ labels' = loaded.labels
           /\ error' = loaded.raised
           /\ state' = IF loaded.raised = "none" THEN "loaded" ELSE "load_failed"
    /\ UNCHANGED <<source, registers, program_counter, fetched, runs>>

\* A run that starts from the first instruction at every call.
RunCall_rewind ==
    /\ state \in {"loaded", "returned", "run_failed"}
    /\ runs < MaxRuns
    /\ state' = "running"
    /\ error' = "none"
    /\ runs' = runs + 1
    /\ program_counter' = 0
    /\ UNCHANGED <<source, registers, program, labels, fetched>>

\* The caller calls run: on the loaded machine, or again after run returned
\* or raised.
RunCall ==
    /\ state \in {"loaded", "returned", "run_failed"}
    /\ runs < MaxRuns
    /\ state' = "running"
    /\ error' = "none"
    /\ runs' = runs + 1
    /\ UNCHANGED <<source, registers, program, program_counter, labels, fetched>>

\* The loop condition of run fails: run returns.
RunReturn ==
    /\ state = "running"
    /\ program_counter >= Len(program)
    /\ state' = "returned"
    /\ UNCHANGED <<source, registers, program, program_counter, labels, error,
                   fetched, runs>>

\* One turn of the loop of run, by the class of the command fetched.
ExecLoad ==
    /\ Fetching({"LoadCommand"})
    /\ Turn(execute(CurrentCommand, labels, registers, program_counter))

ExecStore ==
    /\ Fetching({"StoreCommand"})
    /\ Turn(execute(CurrentCommand, labels, registers, program_counter))

ExecBinary ==
    /\ Fetching(BinaryClasses)
    /\ Turn(execute(CurrentCommand, labels, registers, program_counter))

ExecNotBinary ==
    /\ Fetching(NotBinaryClasses)
    /\ Turn(execute(CurrentCommand, labels, registers, program_counter))

ExecNot ==
    /\ Fetching({"NotCommand"})
    /\ Turn(execute(CurrentCommand, labels, registers, program_counter))

ExecConditional ==
    /\ Fetching(ConditionalClasses)
    /\ Turn(execute(CurrentCommand, labels, registers, program_counter))

ExecJmp ==
    /\ Fetching({"JmpCommand"})
    /\ Turn(execute(CurrentCommand, labels, registers, program_counter))

ExecJmpc ==
    /\ Fetching({"JmpcCommand"})
    /\ Turn(execute(CurrentCommand, labels, registers, program_counter))

ExecJmpnc ==
    /\ Fetching({"JmpncCommand"})
    /\ Turn(execute(CurrentCommand, labels, registers, program_counter))

\* ------------------------------------------------------------------------
\* The programs
\* ------------------------------------------------------------------------

\* Bound on the number of lines of the programs built from LineAlphabet.
MaxLen == 3

\* "mnemonic operand"
Instr(mnemonic, operand) == mnemonic \o <<" ">> \o operand

\* "label: line"
Labelled(label, line) == label \o <<":", " ">> \o line

\* A line indented as in the tests' triple-quoted programs.
Indent(line) == <<" ", " ", " ", " ">> \o line

\* The lines joined by newlines.
RECURSIVE JoinLines(_)
JoinLines(ls) ==
    IF ls = <<>> THEN <<>>
    ELSE IF Len(ls) = 1 THEN ls[1]
    ELSE ls[1] \o <<"\n">> \o JoinLines(Tail(ls))

\* A program written as the tests write it: a newline, the indented lines,
\* and the indentation before the closing quotes.
RECURSIVE IndentAll(_)
IndentAll(ls) == IF ls = <<>> THEN <<>> ELSE <<Indent(ls[1])>> \o IndentAll(Tail(ls))

TestText(ls) == JoinLines(<<<<>>>> \o IndentAll(ls) \o <<Indent(<<>>)>>)

\* Operand tokens.
t0 == <<"0">>

t1 == <<"1">>

t2 == <<"2">>

t3 == <<"3">>

t4 == <<"4">>

t5 == <<"5">>

t10 == <<"1", "0">>

t20 == <<"2", "0">>

t65537 == <<"6", "5", "5", "3", "7">>

tTwo32 == <<"4", "2", "9", "4", "9", "6", "7", "2", "9", "6">>

hF0 == <<"1", "6", "#", "F", "0">>

h0F == <<"1", "6", "#", "0", "F">>

hFF == <<"1", "6", "#", "F", "F">>

hFFFFFFFF == <<"1", "6", "#", "F", "F", "F", "F", "F", "F", "F", "F">>

h80000000 == <<"1", "6", "#", "8", "0", "0", "0", "0", "0", "0", "0">>

\* Register names.
rA == <<"A">>

rB == <<"B">>

rC == <<"C">>

rD == <<"D">>

rE == <<"E">>

rF == <<"F">>

rG == <<"G">>

rX == <<"X">>

rY == <<"Y">>

\* Label names.
lL == <<"L">>

lSkip == <<"S", "k", "i", "p">>

lDone == <<"D", "o", "n", "e">>

lEnd == <<"E", "n", "d">>

\* The programs of src/test_il_interpreter.py.
test_load_store ==
    TestText(<<
        Instr(mLD, t5),
        Instr(mST, rA)>>)

test_set_reset ==
    TestText(<<
        Instr(mLD, t1),
        Instr(mS, rX),
        Instr(mR, rY)>>)

test_logical_operations ==
    TestText(<<
        Instr(mLD, hF0),
        Instr(mAND, h0F),
        Instr(mST, rA),
        Instr(mLD, hF0),
        Instr(mANDN, h0F),
        Instr(mST, rB),
        Instr(mLD, hF0),
        Instr(mOR, h0F),
        Instr(mST, rC),
        Instr(mLD, hF0),
        Instr(mORN, h0F),
        Instr(mST, rD),
        Instr(mLD, hF0),
        Instr(mXOR, hFF),
        Instr(mST, rE),
        Instr(mLD, hF0),
        Instr(mXORN, hFF),
        Instr(mST, rF),
        Instr(mLD, t1),
        mNOT,
        Instr(mST, rG)>>)

test_arithmetic_operations ==
    TestText(<<
        Instr(mLD, t10),
        Instr(mADD, t5),
        Instr(mST, rA),
        Instr(mLD, t10),
        Instr(mSUB, t3),
        Instr(mST, rB),
        Instr(mLD, t2),
        Instr(mMUL, t4),
        Instr(mST, rC),
        Instr(mLD, t20),
        Instr(mDIV, t4),
        Instr(mST, rD),
        Instr(mLD, t20),
        Instr(mMOD, t3),
        Instr(mST, rE)>>)

test_control_flow ==
    TestText(<<
        Instr(mLD, t1),
        Instr(mJMP, lSkip),
        Instr(mLD, t0),
        Instr(mST, rA),
        Labelled(lSkip, Instr(mLD, t1)),
        Instr(mST, rB),
        Instr(mLD, t1),
        Instr(mJMPC, lDone),
        Instr(mLD, t0),
        Instr(mST, rC),
        Labelled(lDone, Instr(mLD, t1)),
        Instr(mST, rD),
        Instr(mLD, t0),
        Instr(mJMPNC, lEnd),
        Instr(mLD, t0),
        Instr(mST, rE),
        Labelled(lEnd, Instr(mLD, t1)),
        Instr(mST, rF)>>)

TestPrograms == {test_load_store, test_set_reset, test_logical_operations,
                 test_arithmetic_operations, test_control_flow}

\* Operand values of the arithmetic programs: small and large words, and a
\* decimal literal beyond 32 bits.
ValueTokens == {t0, t1, t3, t20, t65537, tTwo32, hF0, h0F, hFFFFFFFF, h80000000}

BinaryMnemonics == {mAND, mANDN, mOR, mORN, mXOR, mXORN, mADD, mSUB, mMUL,
                    mDIV, mMOD}

\* LD a / OP v / ST A, and LD a / NOT / (NOT /) ST A.
ArithPrograms ==
    {JoinLines(<<Instr(mLD, a), Instr(op, v), Instr(mST, rA)>>) :
        <<a, op, v>> \in ValueTokens \X BinaryMnemonics \X ValueTokens}
    \cup {JoinLines(<<Instr(mLD, a), mNOT, Instr(mST, rA)>>) : a \in ValueTokens}
    \cup {JoinLines(<<Instr(mLD, a), mNOT, mNOT, Instr(mST, rA)>>) : a \in ValueTokens}

\* LD a / OP X / ST A, X never written.
UnwrittenPrograms ==
    {JoinLines(<<Instr(mLD, a), Instr(op, rX), Instr(mST, rA)>>) :
        <<a, op>> \in ValueTokens \X BinaryMnemonics}

\* LD a / OP ACC / ST A: the accumulator as the operand, of S, R and ST
\* (the variable) and of LD and the binary instructions (the expression).
AccPrograms ==
    {JoinLines(<<Instr(mLD, a), Instr(op, ACC), Instr(mST, rA)>>) :
        <<a, op>> \in ValueTokens \X ({mS, mR, mST, mLD} \cup BinaryMnemonics)}

\* The accumulator and a register never written read in one program: the
\* division of ACC by itself, then the load of A.
AccReadText ==
    JoinLines(<<Instr(mLD, t3), Instr(mDIV, ACC), Instr(mST, rB), Instr(mLD, rA)>>)

\* The lines of the small programs: loads, stores, set and reset, a register
\* read, a division by a register, the three jumps to L, and L defined with
\* and without an instruction on its line.
LineAlphabet ==
    {Instr(mLD, t0), Instr(mLD, t1), Instr(mLD, rA), Instr(mST, rA),
     Instr(mS, rX), Instr(mR, rX), mNOT, Instr(mDIV, rA),
     Instr(mJMP, lL), Instr(mJMPC, lL), Instr(mJMPNC, lL),
     Labelled(lL, Instr(mST, rB)), lL \o <<":">>}

\* Every program of 1..MaxLen lines of LineAlphabet.
SmallPrograms ==
    UNION {{JoinLines(ls) : ls \in [1..n -> LineAlphabet]} : n \in 1..MaxLen}

\* A second label, and a mnemonic that is not in command_map.
lM == <<"M">>

mFOO == <<"F", "O", "O">>

\* The lines of the loader programs: instructions, the labels L and M alone
\* on a line and before an instruction, and lines the parser rejects: an
\* unknown mnemonic (alone and after a label), a missing operand, an operand
\* too many.
LoaderAlphabet ==
    {Instr(mLD, t1), Instr(mST, rB), Instr(mJMP, lL),
     lL \o <<":">>, lM \o <<":">>,
     Labelled(lL, Instr(mST, rB)), Labelled(lM, Instr(mLD, t1)),
     Instr(mFOO, t1), Labelled(lL, mFOO), mLD, Instr(mNOT, t1),
     Instr(mLD, t1) \o <<" ">> \o t2}

\* Every program of 1..MaxLen lines of LoaderAlphabet.
LoaderPrograms ==
    UNION {{JoinLines(ls) : ls \in [1..n -> LoaderAlphabet]} : n \in 1..MaxLen}

\* A program with every placement of a label: two label-only lines in a
\* row, a label before an instruction on its line, a label defined twice,
\* and labels after the last instruction; the lines indented and separated
\* by an empty line.
LabelText ==
    TestText(<<
        lL \o <<":">>,
        lM \o <<":">>,
        Instr(mLD, t1),
        <<>>,
        Labelled(lSkip, Instr(mST, rA)),
        lL \o <<" ", ":">>,
        Instr(mST, rB),
        lDone \o <<":">>,
        lEnd \o <<":">>>>)

\* Programs with a backward JMP.  LoopForever has a loop of loads and
\* stores; LoopExit leaves its loop by a conditional jump forward, on the
\* second pass; LoopKeyError and LoopDivision fail on the second pass, at a
\* jump to a label that does not exist and at a division by a register the
\* first pass has set to 0.
LoopForever ==
    JoinLines(<<Labelled(lL, Instr(mLD, t1)), Instr(mST, rA), Instr(mJMP, lL)>>)

LoopExit ==
    JoinLines(<<Labelled(lL, Instr(mJMPC, lEnd)), Instr(mLD, t1), Instr(mJMP, lL),
                Labelled(lEnd, Instr(mST, rA))>>)

LoopKeyError ==
    JoinLines(<<Labelled(lL, Instr(mJMPC, lSkip)), Instr(mLD, t1), Instr(mJMP, lL)>>)

LoopDivision ==
    JoinLines(<<Instr(mLD, t1), Instr(mST, rA), Labelled(lL, Instr(mLD, t1)),
                Instr(mDIV, rA), Instr(mLD, t0), Instr(mST, rA), Instr(mJMP, lL)>>)

LoopPrograms == {LoopForever, LoopExit, LoopKeyError, LoopDivision}

\* Operands that start with 16# and go on as int(text, 16) allows, with a
\* sign, a 0x prefix or underscores between the digits, and as it refuses.
hMinus1 == HexPrefix \o <<"-", "1">>

hPlusF == HexPrefix \o <<"+", "F">>

h0x1F == HexPrefix \o <<"0", "x", "1", "F">>

h0X_ff == HexPrefix \o <<"0", "X", "_", "f", "f">>

hF_F == HexPrefix \o <<"F", "_", "F">>

hMinus0x10 == HexPrefix \o <<"-", "0", "x", "1", "0">>

h1__0 == HexPrefix \o <<"1", "_", "_", "0">>

h_1 == HexPrefix \o <<"_", "1">>

h0x == HexPrefix \o <<"0", "x">>

hG == HexPrefix \o <<"G">>

LiteralTokens ==
    {hMinus1, hPlusF, h0x1F, h0X_ff, hF_F, hMinus0x10, h1__0, h_1, h0x, hG,
     HexPrefix}

\* LD x / ST A and LD 16#FFFFFFFF / (ADD | DIV) x / ST A for these operands.
LiteralPrograms ==
    {JoinLines(<<Instr(mLD, x), Instr(mST, rA)>>) : x \in LiteralTokens}
    \cup {JoinLines(<<Instr(mLD, hFFFFFFFF), Instr(op, x), Instr(mST, rA)>>) :
              <<op, x>> \in {mADD, mDIV} \X LiteralTokens}

\* Operands written with the digits of other scripts: the Bengali and the
\* Extended Arabic-Indic 3, the Extended Arabic-Indic 12, a Meetei Mayek
\* digit after an ASCII one, the same digits after 16# (as a digit and as
\* the zero of the 0x prefix), and the superscript two, a digit to
\* str.isdigit() that int() refuses, alone and after an ASCII digit.
uBengali3 == <<"৩">>

uPersian3 == <<"۳">>

uPersian12 == <<"۱", "۲">>

uMixed17 == <<"1", "꯷">>

uSuperscript2 == <<"²">>

uDigitSuperscript == <<"1", "²">>

hBengali3 == HexPrefix \o <<"৩">>

hPersianF3 == HexPrefix \o <<"F", "۳">>

hPersian0x1F == HexPrefix \o <<"۰", "x", "1", "F">>

UnicodeTokens ==
    {uBengali3, uPersian3, uPersian12, uMixed17, uSuperscript2,
     uDigitSuperscript, hBengali3, hPersianF3, hPersian0x1F}

\* LD x / ST A, LD x / NOT / NOT / ST A and LD 20 / OP x / ST A for these
\* operands.
UnicodePrograms ==
    {JoinLines(<<Instr(mLD, x), Instr(mST, rA)>>) : x \in UnicodeTokens}
    \cup {JoinLines(<<Instr(mLD, x), mNOT, mNOT, Instr(mST, rA)>>) : x \in UnicodeTokens}
    \cup {JoinLines(<<Instr(mLD, t20), Instr(op, x), Instr(mST, rA)>>) :
              <<op, x>> \in BinaryMnemonics \X UnicodeTokens}

\* Registers whose names read as literals: ST creates them, and an
\* expression of the same text is read as the literal.
LiteralNames == {t3, hFF, hG, uBengali3, uSuperscript2}

\* LD 5 / ST n / LD n / ST A and LD 5 / ST n / (ADD | DIV) n / ST A for
\* these names.
LiteralNamePrograms ==
    {JoinLines(<<Instr(mLD, t5), Instr(mST, n), Instr(op, n), Instr(mST, rA)>>) :
        <<n, op>> \in LiteralNames \X {mLD, mADD, mDIV}}

\* A text whose whitespace is form feeds: between mnemonic and operand,
\* around a label and its instruction, and alone on a line.
FormFeedText ==
    JoinLines(<<
        mLD \o <<"\f">> \o t5 \o <<"\f">>,
        <<"\f">>,
        <<"\f">> \o lL \o <<"\f", ":", "\f">> \o mST \o <<"\f", "\f">> \o rA,
        <<"\f", " ", "\f">>,
        mNOT \o <<"\f">>>>)

\* A text whose whitespace is the vertical tab, the separators and the
\* spaces beyond ASCII: between mnemonic and operand, around a label and
\* its instruction, and alone on a line.
ControlSpaceText ==
    JoinLines(<<
        <<VerticalTab>> \o mLD \o <<FileSeparator>> \o t5 \o <<GroupSeparator>>,
        <<RecordSeparator, UnitSeparator>>,
        lL \o <<NextLine, ":", NoBreakSpace>> \o mST \o <<OghamSpace, VerticalTab>> \o rA,
        <<NextLine, " ", NoBreakSpace>>,
        mNOT \o <<UnitSeparator>>>>)

Programs ==
    TestPrograms \cup ArithPrograms \cup UnwrittenPrograms \cup AccPrograms
        \cup SmallPrograms \cup LoaderPrograms \cup {LabelText}
        \cup LoopPrograms \cup LiteralPrograms \cup UnicodePrograms
        \cup LiteralNamePrograms
        \cup {AccReadText, FormFeedText, ControlSpaceText}

\* ------------------------------------------------------------------------
\* Specification
\* ------------------------------------------------------------------------

\* ILInterpreter.__init__, and the text the caller is about to load.
Init ==
    /\ source \in Programs
    /\ registers = [k \in {ACC} |-> PyInt(Zero)]
    /\ program = <<>>
    /\ program_counter = 0
    /\ labels = EmptyDict
    /\ state = "constructed"
    /\ error = "none"
    /\ fetched = <<>>
    /\ runs = 0

Next ==
    \/ LoadProgram
    \/ RunCall
    \/ RunReturn
    \/ ExecLoad
    \/ ExecStore
    \/ ExecBinary
    \/ ExecNotBinary
    \/ ExecNot
    \/ ExecConditional
    \/ ExecJmp
    \/ ExecJmpc
    \/ ExecJmpnc

Spec == Init /\ [][Next]_vars

\* A step of the loop of run: one more turn, or the return.
RunStep ==
    \/ RunReturn
    \/ ExecLoad
    \/ ExecStore
    \/ ExecBinary
    \/ ExecNotBinary
    \/ ExecNot
    \/ ExecConditional
    \/ ExecJmp
    \/ ExecJmpc
    \/ ExecJmpnc

\* The control-flow programs: 1..MaxLen lines among NOT, ST A, the three
\* jumps to L, and the label L.
LiveAlphabet ==
    {mNOT, Instr(mST, rA), Instr(mJMP, lL), Instr(mJMPC, lL), Instr(mJMPNC, lL),
     lL \o <<":">>}

LivePrograms ==
    UNION {{JoinLines(ls) : ls \in [1..n -> LiveAlphabet]} : n \in 1..MaxLen}

\* A step of the loop of run on a control-flow program.
LiveStep == source \in LivePrograms /\ RunStep

\* run is a loop of one thread with nothing to wait for: once called it
\* goes on until it returns or raises.  The fairness is stated for the
\* control-flow programs.
FairSpec == Spec /\ WF_vars(LiveStep)

\* ------------------------------------------------------------------------
\* Properties
\* ------------------------------------------------------------------------

\* This step is a turn of the loop of run: CurrentCommand is executed.
Stepping == state = "running" /\ fetched' # fetched

\* The command of the last turn.
LastCommand == program[fetched[Len(fetched)] + 1]

\* val is an int in 0..2^32-1.
IsWord32(val) ==
    /\ val.t = "int"
    /\ \A i \in (MaskLimbs + 1)..NLimbs : val.v[i] = 0

JumpClasses == {"JmpCommand", "JmpcCommand", "JmpncCommand"}

\* The condition under which the jump command looks its label up.
JumpCondition(command, regs) ==
    \/ command.cls = "JmpCommand"
    \/ command.cls = "JmpcCommand" /\ regs[ACC].v # Zero
    \/ command.cls = "JmpncCommand" /\ regs[ACC].v = Zero

\* C1: in every state (the initial one, and after every instruction run has
\* executed, whatever its class and operand) the register table holds ACC
\* and ACC is an integer in 0..2^32-1.
C1_AccIsWord ==
    /\ ACC \in DOMAIN registers
    /\ IsWord32(registers[ACC])

\* C1 witness: S ACC has just been executed with ACC = 16#FFFFFFFF and has
\* left the integer 1 in ACC.
C1_Witness ==
    /\ source = JoinLines(<<Instr(mLD, hFFFFFFFF), Instr(mS, ACC), Instr(mST, rA)>>)
    /\ state = "running"
    /\ Len(fetched) = 2
    /\ LastCommand = Command("SCommand", ACC)
    /\ registers[ACC] = PyInt(One)

\* C2: a jump that is taken to a label L leaves the program counter at
\* labels[L], so the next instruction run fetches is the one at that index
\* (every fetch is at the program counter, which is then a valid index,
\* never -1); and with the program counter at or beyond the last
\* instruction run returns, executing nothing further.
C2_JumpLandsOnLabel ==
    [][/\ (Stepping /\ CurrentCommand.cls \in JumpClasses
              /\ JumpCondition(CurrentCommand, registers)
              /\ CurrentCommand.arg \in DOMAIN labels)
          => (/\ program_counter' = labels[CurrentCommand.arg]
              /\ state' = "running")
       /\ Stepping
          => (/\ fetched' = Append(fetched, program_counter)
              /\ program_counter \in 0..(Len(program) - 1))
       /\ (state = "running" /\ program_counter >= Len(program))
          => (/\ state' = "returned"
              /\ fetched' = fetched
              /\ registers' = registers)
      ]_vars

\* C2 witness: a jump to a label at index 0 was taken (the program counter
\* passed through -1) and the instruction fetched next was the one at 0.
C2_Witness ==
    \E i \in 1..(Len(fetched) - 1) :
        /\ program[fetched[i] + 1].cls = "JmpCommand"
        /\ program[fetched[i] + 1].arg \in DOMAIN labels
        /\ labels[program[fetched[i] + 1].arg] = 0
        /\ fetched[i] > 0
        /\ fetched[i + 1] = 0

\* C3: executing a jump whose label is defined, JMP moves the program
\* counter to the label whatever ACC holds, JMPC does so exactly when ACC is
\* non-zero and JMPNC exactly when ACC is zero, and otherwise the program
\* counter advances by one; the only instruction the turn fetches is the
\* jump itself (nothing between the jump and the label), and no jump
\* changes the register table.
C3_JumpSemantics ==
    [][(Stepping /\ CurrentCommand.cls \in JumpClasses)
          => /\ registers' = registers
             /\ fetched' = Append(fetched, program_counter)
             /\ CurrentCommand.arg \in DOMAIN labels
                => LET target == labels[CurrentCommand.arg]
                       nonzero == registers[ACC].v # Zero
                       taken == CASE CurrentCommand.cls = "JmpCommand" -> TRUE
                                  [] CurrentCommand.cls = "JmpcCommand" -> nonzero
                                  [] CurrentCommand.cls = "JmpncCommand" -> ~nonzero
                   IN  /\ state' = "running"
                       /\ program_counter' =
                              IF taken THEN target ELSE program_counter + 1
      ]_vars

\* C3 witness: test_control_flow has run to its end: the three jumps were
\* taken, the stores between each jump and its label were skipped (A, C and
\* E are absent) and the stores at the labels were executed.
C3_Witness ==
    /\ source = test_control_flow
    /\ state = "returned"
    /\ fetched = <<0, 1, 4, 5, 6, 7, 10, 11, 12, 13, 16, 17>>
    /\ DOMAIN registers = {ACC, rB, rD, rF}
    /\ registers[rB] = PyInt(One)
    /\ registers[rD] = PyInt(One)
    /\ registers[rF] = PyInt(One)

\* Reference arithmetic for the properties: a number is the sequence of its
\* bits, least significant first, and the operations are those of a binary
\* adder and a shift-and-add multiplier of the sequence's width.

\* The low n bits of the limbs x.
BitsOf(x, n) ==
    AsSeq([i \in 1..n |-> (x[((i - 1) \div 8) + 1] \div (2 ^ ((i - 1) % 8))) % 2])

ZeroBits(n) == AsSeq([i \in 1..n |-> 0])

\* a + b + c, modulo 2^Len(a), from bit i on.
RECURSIVE RippleFrom(_, _, _, _)
RippleFrom(a, b, i, c) ==
    IF i > Len(a) THEN <<>>
    ELSE <<(a[i] + b[i] + c) % 2>> \o RippleFrom(a, b, i + 1, (a[i] + b[i] + c) \div 2)

BitsAdd(a, b) == RippleFrom(a, b, 1, 0)

\* 2^k * a, modulo 2^Len(a).
BitsShift(a, k) == AsSeq([i \in 1..Len(a) |-> IF i <= k THEN 0 ELSE a[i - k]])

\* a * b, modulo 2^Len(a): the sum of the 2^(i-1) * a with bit i of b set.
RECURSIVE MulFrom(_, _, _)
MulFrom(a, b, i) ==
    IF i > Len(a) THEN ZeroBits(Len(a))
    ELSE IF b[i] = 1 THEN BitsAdd(MulFrom(a, b, i + 1), BitsShift(a, i - 1))
    ELSE MulFrom(a, b, i + 1)

BitsMul(a, b) == MulFrom(a, b, 1)

\* a < b, comparing from bit i down.
RECURSIVE LessFrom(_, _, _)
LessFrom(a, b, i) ==
    IF i = 0 THEN FALSE
    ELSE IF a[i] # b[i] THEN a[i] < b[i]
    ELSE LessFrom(a, b, i - 1)

BitsLess(a, b) == LessFrom(a, b, Len(a))

\* a = q * v + r with 0 <= r < v, computed without wrap-around in twice the
\* width of a word.
IsQuotRem(a, v, q, r) ==
    /\ BitsLess(BitsOf(r, 64), BitsOf(v, 64))
    /\ BitsAdd(BitsMul(BitsOf(q, 64), BitsOf(v, 64)), BitsOf(r, 64)) = BitsOf(a, 64)

\* a - b, modulo 2^Len(a): a plus the complement of b plus one.
BitsSub(a, b) == RippleFrom(a, AsSeq([i \in 1..Len(b) |-> 1 - b[i]]), 1, 1)

\* Reference reading of the operands for the properties, after section 4.1
\* of the specification: a token is a decimal literal, a hex literal or a
\* name, and its value is a sequence of 32 bits.

\* The low n bits of a number below 32.
NatBits(k, n) == AsSeq([i \in 1..n |-> IF i <= 5 THEN (k \div (2 ^ (i - 1))) % 2 ELSE 0])

\* The letters of the hexadecimal digits 10 to 15.
HexLetters == <<{"A", "a"}, {"B", "b"}, {"C", "c"}, {"D", "d"}, {"E", "e"}, {"F", "f"}>>

\* The number a digit stands for.
DigitOf(c) ==
    IF c \in DecDigits THEN CHOOSE v \in 0..9 : c \in DecimalDigits[v + 1]
    ELSE CHOOSE v \in 10..15 : c \in HexLetters[v - 9]

\* The number the first n digits of d denote in the base, modulo 2^32: each
\* digit is added to the base times the number of the digits before it.
RECURSIVE LiteralBits(_, _, _)
LiteralBits(d, n, base) ==
    IF n = 0 THEN ZeroBits(32)
    ELSE BitsAdd(BitsMul(LiteralBits(d, n - 1, base), NatBits(base, 32)),
                 NatBits(DigitOf(d[n]), 32))

\* x is a decimal literal: decimal digits, no more than the 4300 the
\* runtime converts.
IsDecimalLiteral(x) ==
    /\ x # <<>>
    /\ Len(x) <= 4300
    /\ \A i \in 1..Len(x) : x[i] \in DecDigits

\* x is a hex literal: 16# and hexadecimal digits.
IsHexLiteral(x) ==
    /\ StartsWith(x, HexPrefix)
    /\ Len(x) > Len(HexPrefix)
    /\ \A i \in (Len(HexPrefix) + 1)..Len(x) : x[i] \in HexDigits

\* x is a name, not a literal: neither digits nor 16#....
IsName(x) == ~IsDigit(x) /\ ~StartsWith(x, HexPrefix)

\* The bits of the word 2^32 - 1 masks out of the int x.
WordBits(x) == BitsOf(x, 32)

\* The value of a literal.
LiteralValue(x) ==
    IF IsDecimalLiteral(x) THEN LiteralBits(x, Len(x), 10)
    ELSE LiteralBits(SubSeq(x, Len(HexPrefix) + 1, Len(x)), Len(x) - Len(HexPrefix), 16)

\* x is a decimal literal, a hex literal or the name of an existing register.
HasValue(regs, x) ==
    IsDecimalLiteral(x) \/ IsHexLiteral(x) \/ (IsName(x) /\ x \in DOMAIN regs)

\* The value of such an x.
ValueBits(regs, x) ==
    IF IsDecimalLiteral(x) \/ IsHexLiteral(x) THEN LiteralValue(x)
    ELSE WordBits(regs[x].v)

\* The value an instruction computes with for the operand x: the value of
\* a literal or of an existing register; 0 for a name that is no register
\* and for digits that are no decimal literal; and for the other tokens
\* that start with 16#, what evaluate_expression makes of them.
OperandBits(regs, x) ==
    IF HasValue(regs, x) THEN ValueBits(regs, x)
    ELSE IF IsName(x) \/ IsDigit(x) THEN ZeroBits(32)
    ELSE WordBits(evaluate_expression(regs, x).value)

\* Byte k of a sequence of bits, least significant byte first.
ByteOf(b, k) ==
    LET o == 8 * (k - 1)
    IN  b[o + 1] + 2 * b[o + 2] + 4 * b[o + 3] + 8 * b[o + 4] + 16 * b[o + 5]
            + 32 * b[o + 6] + 64 * b[o + 7] + 128 * b[o + 8]

\* The int of 32 bits.
WordOfBits(b) == Word(ByteOf(b, 4), ByteOf(b, 3), ByteOf(b, 2), ByteOf(b, 1))

\* The value of the operand of the command about to be executed.
OperandWord == WordOfBits(OperandBits(registers, CurrentCommand.arg))

\* C4: executing DIV or MOD with an operand that evaluates to 0 makes run
\* fail with ZeroDivisionError (the spec's DivisionByZero); the register
\* table and the program counter are what they were before the instruction,
\* and run fetches nothing after a failure.
C4_DivisionByZero ==
    [][/\ (Stepping /\ CurrentCommand.cls \in {"DivCommand", "ModCommand"}
              /\ OperandWord = Zero)
          => (/\ state' = "run_failed"
              /\ error' = "ZeroDivisionError"
              /\ registers' = registers
              /\ program_counter' = program_counter)
       /\ state = "run_failed" => fetched' = fetched
      ]_vars

\* C4 witness: LD 20 / DIV 0 / ST A has failed at the DIV: ACC is still 20
\* and A was never created.
C4_Witness ==
    /\ source = JoinLines(<<Instr(mLD, t20), Instr(mDIV, t0), Instr(mST, rA)>>)
    /\ state = "run_failed"
    /\ error = "ZeroDivisionError"
    /\ program_counter = 1
    /\ registers = [k \in {ACC} |-> PyInt(Small(20))]

\* C5 (as claimed): executing any jump whose label is absent from the label
\* table makes run fail with KeyError (the spec's UndefinedLabel) and leaves
\* the register table unchanged.
C5_Original ==
    [][(Stepping /\ CurrentCommand.cls \in JumpClasses
          /\ CurrentCommand.arg \notin DOMAIN labels)
          => (/\ state' = "run_failed"
              /\ error' = "KeyError"
              /\ registers' = registers)
      ]_vars

\* C5 (amended): a jump looks its label up only when it is taken.  JMP, JMPC
\* with ACC non-zero and JMPNC with ACC zero, executed with a label absent
\* from the label table, make run fail with KeyError, the register table and
\* the program counter unchanged and nothing fetched after the failure;
\* JMPC with ACC zero and JMPNC with ACC non-zero fall through to the next
\* instruction without an error, although the label is absent.
C5_UndefinedLabel ==
    [][/\ (Stepping /\ CurrentCommand.cls \in JumpClasses
              /\ CurrentCommand.arg \notin DOMAIN labels)
          => IF JumpCondition(CurrentCommand, registers)
             THEN /\ state' = "run_failed"
                  /\ error' = "KeyError"
                  /\ registers' = registers
                  /\ program_counter' = program_counter
             ELSE /\ state' = "running"
                  /\ error' = "none"
                  /\ registers' = registers
                  /\ program_counter' = program_counter + 1
       /\ state = "run_failed" => fetched' = fetched
      ]_vars

\* C5 witness: LD 1 / JMPNC L / JMP L with no label L: the JMPNC fell
\* through and the JMP has failed with KeyError.
C5_Witness ==
    /\ source = JoinLines(<<Instr(mLD, t1), Instr(mJMPNC, lL), Instr(mJMP, lL)>>)
    /\ labels = EmptyDict
    /\ state = "run_failed"
    /\ error = "KeyError"
    /\ fetched = <<0, 1, 2>>
    /\ program_counter = 2
    /\ registers = [k \in {ACC} |-> PyInt(One)]

\* The classes whose operand is an expression.
ExpressionClasses == {"LoadCommand"} \cup BinaryClasses \cup NotBinaryClasses

\* The command about to be executed reads a register that was never
\* written.
ReadsUnwritten ==
    /\ CurrentCommand.cls \in ExpressionClasses
    /\ IsName(CurrentCommand.arg)
    /\ CurrentCommand.arg \notin DOMAIN registers

\* C6 (as claimed): an instruction whose operand names a register other
\* than ACC that was never written makes run fail.
C6_Original ==
    [][(Stepping /\ ReadsUnwritten) => state' = "run_failed"]_vars

\* C6 (amended): the operand of such an instruction evaluates to 0 and no
\* error is raised for the name.  LD leaves ACC = 0; ADD, SUB, OR, XOR and
\* ANDN leave ACC as it was; AND and MUL leave 0; ORN leaves 2^32 - 1 and
\* XORN the complement of ACC; nothing but ACC changes and run goes on to
\* the next instruction.  Only DIV and MOD fail, with ZeroDivisionError and
\* the register table unchanged.  An operand ACC is always found and read
\* as what ACC holds (LD ACC changes nothing, ADD ACC doubles ACC, SUB ACC
\* and XOR ACC leave 0): the only failure of a turn that reads it is a
\* division by an ACC that holds 0.
C6_UnwrittenReadsZero ==
    [][/\ (Stepping /\ ReadsUnwritten)
          => LET cls == CurrentCommand.cls
                 a == WordBits(registers[ACC].v)
                 r == WordBits(registers'[ACC].v)
             IN  IF cls \in {"DivCommand", "ModCommand"}
                 THEN /\ state' = "run_failed"
                      /\ error' = "ZeroDivisionError"
                      /\ registers' = registers
                      /\ program_counter' = program_counter
                 ELSE /\ state' = "running"
                      /\ error' = "none"
                      /\ program_counter' = program_counter + 1
                      /\ IsWord32(registers'[ACC])
                      /\ registers' = Put(registers, ACC, registers'[ACC])
                      /\ cls \in {"LoadCommand", "AndCommand", "MulCommand"}
                         => registers'[ACC] = PyInt(Zero)
                      /\ cls \in {"AddCommand", "SubCommand", "OrCommand",
                                   "XorCommand", "AndnCommand"}
                         => registers'[ACC] = registers[ACC]
                      /\ cls = "OrnCommand" => \A i \in 1..32 : r[i] = 1
                      /\ cls = "XornCommand" => \A i \in 1..32 : r[i] = 1 - a[i]
       /\ (Stepping /\ CurrentCommand.cls \in ExpressionClasses
              /\ CurrentCommand.arg = ACC)
          => LET cls == CurrentCommand.cls
                 a == WordBits(registers[ACC].v)
                 r == WordBits(registers'[ACC].v)
             IN  /\ ACC \in DOMAIN registers
                 /\ state' = "run_failed"
                    <=> (cls \in {"DivCommand", "ModCommand"} /\ registers[ACC].v = Zero)
                 /\ state' = "run_failed"
                    => (error' = "ZeroDivisionError" /\ registers' = registers)
                 /\ (state' = "running" /\ cls = "LoadCommand")
                    => registers' = registers
                 /\ (state' = "running" /\ cls = "AddCommand")
                    => r = BitsAdd(a, a)
                 /\ (state' = "running" /\ cls \in {"SubCommand", "XorCommand"})
                    => registers'[ACC] = PyInt(Zero)
                 /\ (state' = "running" /\ cls = "DivCommand")
                    => registers'[ACC] = PyInt(One)
      ]_vars

\* C6 witness: LD 3 / DIV ACC / ST B / LD A has run: DIV ACC read the 3 of
\* ACC and left 1, which ST B stored, and LD A, with A never written, left
\* 0 in ACC; no error was raised.
C6_Witness ==
    /\ source = AccReadText
    /\ state = "returned"
    /\ error = "none"
    /\ fetched = <<0, 1, 2, 3>>
    /\ rA \notin DOMAIN registers
    /\ registers = [k \in {ACC, rB} |-> IF k = ACC THEN PyInt(Zero) ELSE PyInt(One)]

ArithmeticClasses == {"AddCommand", "SubCommand", "MulCommand", "DivCommand",
                      "ModCommand"}

\* C7: with a the value of ACC and v the value of the operand, both words,
\* ADD leaves (a + v) mod 2^32, SUB leaves the r with (r + v) mod 2^32 = a,
\* MUL leaves (a * v) mod 2^32, and for v # 0 DIV leaves the q and MOD the m
\* with a = q * v + m, 0 <= m < v; the result is a word, nothing but ACC
\* changes and run goes on to the next instruction.  LD 16#FFFFFFFF / ADD 1
\* / ST A ends with A = 0.
C7_Arithmetic ==
    [][/\ (Stepping /\ CurrentCommand.cls \in ArithmeticClasses
              /\ ~(CurrentCommand.cls \in {"DivCommand", "ModCommand"}
                      /\ OperandWord = Zero))
          => LET cls == CurrentCommand.cls
                 a == registers[ACC].v
                 v == OperandWord
                 r == registers'[ACC].v
             IN  /\ IsWord32(registers[ACC])
                 /\ IsWord32(registers'[ACC])
                 /\ state' = "running"
                 /\ program_counter' = program_counter + 1
                 /\ registers' = Put(registers, ACC, registers'[ACC])
                 /\ cls = "AddCommand"
                    => BitsOf(r, 32) = BitsAdd(BitsOf(a, 32), BitsOf(v, 32))
                 /\ cls = "SubCommand"
                    => BitsAdd(BitsOf(r, 32), BitsOf(v, 32)) = BitsOf(a, 32)
                 /\ cls = "MulCommand"
                    => BitsOf(r, 32) = BitsMul(BitsOf(a, 32), BitsOf(v, 32))
                 /\ cls = "DivCommand"
                    => \E m \in {PySub(a, PyMul(r, v))} : IsQuotRem(a, v, r, m)
                 /\ cls = "ModCommand"
                    => \E q \in {PyFloorDiv(a, v)} : IsQuotRem(a, v, q, r)
       /\ (source = JoinLines(<<Instr(mLD, hFFFFFFFF), Instr(mADD, t1), Instr(mST, rA)>>)
              /\ state' = "returned")
          => registers'[rA] = PyInt(Zero)
      ]_vars

\* C7 witness: SUB 1 was executed with ACC = 0 and left 16#FFFFFFFF, which
\* ST A stored.
C7_Witness ==
    /\ source = JoinLines(<<Instr(mLD, t0), Instr(mSUB, t1), Instr(mST, rA)>>)
    /\ state = "returned"
    /\ registers[ACC] = PyInt(Word(255, 255, 255, 255))
    /\ registers[rA] = PyInt(Word(255, 255, 255, 255))

\* C8: NOT leaves in ACC the bitwise complement of the word it held (each of
\* the 32 bits flipped: 2^32 - 1 - a), and a second NOT right after it
\* restores the word: after LD x / NOT / NOT, ACC holds the value LD x
\* loaded.
C8_NotInvolution ==
    [][(Stepping /\ CurrentCommand.cls = "NotCommand")
          => LET a == BitsOf(registers[ACC].v, 32)
                 r == BitsOf(registers'[ACC].v, 32)
             IN  /\ IsWord32(registers'[ACC])
                 /\ \A i \in 1..32 : r[i] = 1 - a[i]
                 /\ registers' = Put(registers, ACC, registers'[ACC])
                 /\ (/\ Len(fetched) >= 2
                     /\ fetched[Len(fetched)] = program_counter - 1
                     /\ fetched[Len(fetched) - 1] = program_counter - 2
                     /\ program[program_counter].cls = "NotCommand"
                     /\ program[program_counter - 1].cls = "LoadCommand"
                     /\ program[program_counter - 1].arg # ACC)
                    => r = OperandBits(registers, program[program_counter - 1].arg)
      ]_vars

\* C8 witness: LD 1 / NOT / ST G of test_logical_operations left 4294967294
\* (16#FFFFFFFE) in G.
C8_Witness ==
    /\ source = test_logical_operations
    /\ state = "returned"
    /\ registers[rG] = PyInt(Word(255, 255, 255, 254))

\* C9: S var and R var executed with ACC non-zero leave var equal to true
\* (S) or false (R), creating it if it was absent, and change no other
\* register; executed with ACC zero they leave the register table as it
\* was, so an absent var stays absent.  Either way run goes on to the next
\* instruction.
C9_SetReset ==
    [][(Stepping /\ CurrentCommand.cls \in ConditionalClasses)
          => LET var == CurrentCommand.arg
             IN  /\ state' = "running"
                 /\ program_counter' = program_counter + 1
                 /\ IF registers[ACC].v # Zero
                    THEN /\ DOMAIN registers' = DOMAIN registers \cup {var}
                         /\ PyEq(registers'[var],
                                 IF CurrentCommand.cls = "SCommand" THEN PyTrue
                                 ELSE PyFalse)
                         /\ \A k \in DOMAIN registers \ {var} :
                                registers'[k] = registers[k]
                    ELSE registers' = registers
      ]_vars

\* C9 witness: test_set_reset has run: X is true and Y is false.
C9_Witness ==
    /\ source = test_set_reset
    /\ state = "returned"
    /\ DOMAIN registers = {ACC, rX, rY}
    /\ PyEq(registers[rX], PyTrue)
    /\ PyEq(registers[rY], PyFalse)

\* x is a decimal literal of any length.
IsDecimalNumber(x) == x # <<>> /\ \A i \in 1..Len(x) : x[i] \in DecDigits

\* x is a decimal literal, a hex literal or an existing register, as the
\* claim has it, and the value of such an x: that of the literal, or what
\* the register holds.
ClaimedValue(regs, x) == IsDecimalNumber(x) \/ IsHexLiteral(x) \/ x \in DOMAIN regs

ClaimedBits(regs, x) ==
    IF IsDecimalNumber(x) \/ IsHexLiteral(x) THEN LiteralValue(x)
    ELSE WordBits(regs[x].v)

\* C10 (as claimed): LD x, for x a decimal literal, a hex literal or an
\* existing register, leaves in ACC the value of x masked to 32 bits and
\* changes no other register; ST var leaves in var the value of ACC and
\* changes neither ACC nor any other register; so after LD x / ST var both
\* ACC and var hold the value of x.
C10_Original ==
    [][/\ (Stepping /\ CurrentCommand.cls = "LoadCommand"
              /\ ClaimedValue(registers, CurrentCommand.arg))
          => /\ registers' =
                   Put(registers, ACC,
                       PyInt(WordOfBits(ClaimedBits(registers, CurrentCommand.arg))))
             /\ state' = "running"
             /\ program_counter' = program_counter + 1
       /\ (Stepping /\ CurrentCommand.cls = "StoreCommand")
          => /\ registers' = Put(registers, CurrentCommand.arg, registers[ACC])
             /\ registers'[ACC] = registers[ACC]
             /\ state' = "running"
             /\ program_counter' = program_counter + 1
             /\ (/\ fetched # <<>>
                 /\ fetched[Len(fetched)] = program_counter - 1
                 /\ program[program_counter].cls = "LoadCommand"
                 /\ program[program_counter].arg # ACC
                 /\ ClaimedValue(registers, program[program_counter].arg))
                => /\ registers'[ACC] =
                         PyInt(WordOfBits(ClaimedBits(registers, program[program_counter].arg)))
                   /\ registers'[CurrentCommand.arg] = registers'[ACC]
      ]_vars

\* C10 (amended): LD x, for x a decimal literal of at most 4300 digits, a
\* hex literal (16# and hexadecimal digits) or an existing register whose
\* name is neither made of digits nor starts with 16#, leaves in ACC the
\* value of x masked to 32 bits and changes no other register; ST var
\* leaves in var the value of ACC and changes neither ACC nor any other
\* register; so after LD x / ST var both ACC and var hold the value of x.
\* A register whose name is made of digits or is a hex literal is never
\* read: LD of that name loads the literal (0 when the digits are no
\* decimal literal) and leaves the register as it was.
C10_LoadStore ==
    [][/\ (Stepping /\ CurrentCommand.cls = "LoadCommand"
              /\ HasValue(registers, CurrentCommand.arg))
          => /\ registers' =
                   Put(registers, ACC,
                       PyInt(WordOfBits(ValueBits(registers, CurrentCommand.arg))))
             /\ state' = "running"
             /\ program_counter' = program_counter + 1
       /\ (Stepping /\ CurrentCommand.cls = "LoadCommand"
              /\ CurrentCommand.arg \in DOMAIN registers
              /\ (IsDigit(CurrentCommand.arg) \/ IsHexLiteral(CurrentCommand.arg)))
          => /\ registers'[CurrentCommand.arg] = registers[CurrentCommand.arg]
             /\ WordBits(registers'[ACC].v) =
                   IF IsDecimalLiteral(CurrentCommand.arg)
                          \/ IsHexLiteral(CurrentCommand.arg)
                   THEN LiteralValue(CurrentCommand.arg)
                   ELSE ZeroBits(32)
       /\ (Stepping /\ CurrentCommand.cls = "StoreCommand")
          => /\ registers' = Put(registers, CurrentCommand.arg, registers[ACC])
             /\ registers'[ACC] = registers[ACC]
             /\ state' = "running"
             /\ program_counter' = program_counter + 1
             /\ (/\ fetched # <<>>
                 /\ fetched[Len(fetched)] = program_counter - 1
                 /\ program[program_counter].cls = "LoadCommand"
                 /\ HasValue(registers, program[program_counter].arg))
                => /\ registers'[ACC] =
                         PyInt(WordOfBits(ValueBits(registers, program[program_counter].arg)))
                   /\ registers'[CurrentCommand.arg] = registers'[ACC]
      ]_vars

\* C10 witness: LD 5 / ST 3 / LD 3 / ST A has run: ST 3 created the
\* register 3 with the 5 of ACC, LD 3 loaded the literal 3 and left the
\* register alone, and ST A copied ACC: A and ACC hold 3.
C10_Witness ==
    /\ source = JoinLines(<<Instr(mLD, t5), Instr(mST, t3), Instr(mLD, t3), Instr(mST, rA)>>)
    /\ state = "returned"
    /\ fetched = <<0, 1, 2, 3>>
    /\ DOMAIN registers = {ACC, t3, rA}
    /\ registers[t3] = PyInt(Word(0, 0, 0, 5))
    /\ registers[rA] = PyInt(Word(0, 0, 0, 3))
    /\ registers[ACC] = PyInt(Word(0, 0, 0, 3))

\* The names the command about to be executed writes other than ACC's own
\* updates: the target of ST, and the target of S or R when ACC is non-zero.
WrittenTargets ==
    IF Stepping /\ (\/ CurrentCommand.cls = "StoreCommand"
                    \/ /\ CurrentCommand.cls \in ConditionalClasses
                       /\ registers[ACC].v # Zero)
    THEN {CurrentCommand.arg}
    ELSE {}

\* C11: the register table starts with ACC alone, and every step leaves in
\* it exactly the names it held plus the target of the ST, or of the S or R
\* with ACC non-zero, that the step executed: a name that is only read as an
\* operand, or named by an S or R with ACC zero, is not added, and no
\* instruction (nor load_program, nor a call or return of run) removes a
\* name.
C11_RegisterNames ==
    /\ DOMAIN registers = {ACC}
    /\ [][DOMAIN registers' = DOMAIN registers \cup WrittenTargets]_vars

\* C11 witness: LD A / S X / L: ST B has run: A was only read, S X was
\* skipped with ACC zero, and the table holds ACC and B alone.
C11_Witness ==
    /\ source = JoinLines(<<Instr(mLD, rA), Instr(mS, rX),
                            Labelled(lL, Instr(mST, rB))>>)
    /\ state = "returned"
    /\ fetched = <<0, 1, 2>>
    /\ DOMAIN registers = {ACC, rB}

\* The label a line of the text defines, and what follows its colon (the
\* whole line when it has no colon).
LabelOf(line) == Strip(SplitFirst(line, ":")[1])

RestOf(line) == IF Contains(line, ":") THEN Strip(SplitFirst(line, ":")[2]) ELSE line

\* The line holds an instruction: something other than a label.
HasInstruction(line) == RestOf(line) # <<>>

\* The number of instructions written on the first k lines.
InstructionsIn(lines, k) ==
    Cardinality({j \in 1..k : HasInstruction(lines[j])})

\* The lines load_program went through: all of them, or those up to the
\* first one the parser rejected.
LinesRead(lines) ==
    LET bad == {j \in 1..Len(lines) :
                   HasInstruction(lines[j]) /\ ILParser_parse(RestOf(lines[j])).raised # "none"}
    IN  IF bad = {} THEN Len(lines)
        ELSE CHOOSE j \in bad : \A k \in bad : j <= k

\* Line i is the last of the first n lines to define its label.
DefinesLabel(lines, i, n) ==
    /\ Contains(lines[i], ":")
    /\ \A j \in (i + 1)..n :
           Contains(lines[j], ":") => LabelOf(lines[j]) # LabelOf(lines[i])

\* C12: once load_program has been called on the new machine, the label
\* table holds the labels of the lines it read, each mapped to the number of
\* instructions on the lines before the label's line (the last line that
\* defines it, if several do).  So a label line takes no slot; an
\* instruction after the colon is the one at the label's index; two
\* label-only lines in a row map to the same index; and a label with no
\* instruction on or after its line maps to the length of the program.
C12_LabelIndex ==
    state # "constructed" =>
        LET lines == ProgramLines(source)
            n == LinesRead(lines)
            parsed == IF state = "load_failed" THEN n - 1 ELSE n
        IN  /\ DOMAIN labels = {LabelOf(lines[i]) : i \in {j \in 1..n : Contains(lines[j], ":")}}
            /\ Len(program) = InstructionsIn(lines, parsed)
            /\ \A i \in 1..n :
                  DefinesLabel(lines, i, n) =>
                     /\ labels[LabelOf(lines[i])] = InstructionsIn(lines, i - 1)
                     /\ (HasInstruction(lines[i]) /\ i <= parsed)
                           => program[labels[LabelOf(lines[i])] + 1]
                                  = ILParser_parse(RestOf(lines[i])).cmd
                     /\ (i < n /\ ~HasInstruction(lines[i])
                              /\ ~HasInstruction(lines[i + 1])
                              /\ DefinesLabel(lines, i + 1, n))
                           => labels[LabelOf(lines[i])] = labels[LabelOf(lines[i + 1])]
                     /\ (\A j \in i..parsed : ~HasInstruction(lines[j]))
                           => labels[LabelOf(lines[i])] = Len(program)

\* C12 witness: LabelText is loaded: L is defined twice and maps to the
\* index of ST B, M (on the line after the first L) maps to 0, Skip maps to
\* the ST A on its own line, and Done and End, after the last instruction,
\* both map to the length of the program.
C12_Witness ==
    /\ source = LabelText
    /\ state = "loaded"
    /\ Len(program) = 3
    /\ DOMAIN labels = {lL, lM, lSkip, lDone, lEnd}
    /\ labels[lM] = 0
    /\ labels[lSkip] = 1
    /\ program[2] = Command("StoreCommand", rA)
    /\ labels[lL] = 2
    /\ labels[lDone] = 3
    /\ labels[lEnd] = 3

\* C13 (as claimed): when load_program raises, on an unknown mnemonic or on
\* a wrong number of operands, nothing has been executed (the registers, the
\* program counter and the history of fetches are untouched) and the
\* instruction sequence and the label table are what they were before the
\* call.
C13_NoPartialProgram ==
    [][(state = "constructed" /\ state' = "load_failed")
          => /\ error' \in {"ValueError", "TypeError"}
             /\ registers' = registers
             /\ program_counter' = program_counter
             /\ fetched' = fetched
             /\ program' = program
             /\ labels' = labels
      ]_vars

\* C13 witness: LD 1 / L: FOO was rejected at its second line with
\* ValueError, nothing was executed, and the machine holds the LD and the
\* label L of the rejected line.
C13_Witness ==
    /\ source = JoinLines(<<Instr(mLD, t1), Labelled(lL, mFOO)>>)
    /\ state = "load_failed"
    /\ error = "ValueError"
    /\ fetched = <<>>
    /\ registers = [k \in {ACC} |-> PyInt(Zero)]
    /\ program = <<Command("LoadCommand", t1)>>
    /\ labels = [k \in {lL} |-> 1]

\* The i-th instruction fetched was a JMP to a label defined at or before
\* the JMP's own index.
BackwardJmpAt(i) ==
    LET jmp == program[fetched[i] + 1]
    IN  /\ jmp.cls = "JmpCommand"
        /\ jmp.arg \in DOMAIN labels
        /\ labels[jmp.arg] <= fetched[i]

\* The instructions from the label of that JMP up to the JMP hold no other
\* jump and no DIV or MOD.
StraightLoopAt(i) ==
    \A j \in labels[program[fetched[i] + 1].arg]..(fetched[i] - 1) :
        program[j + 1].cls \notin JumpClasses \cup {"DivCommand", "ModCommand"}

\* C15 (as claimed): once run has executed a JMP to a label at or before
\* the JMP's own index, run never ends: it neither returns (the program
\* counter never reaches the length of the program) nor fails.
C15_Original ==
    (\E i \in 1..Len(fetched) : BackwardJmpAt(i))
        => /\ state = "running"
           /\ program_counter < Len(program)

\* C15 (amended): once run has executed a JMP to a label at or before the
\* JMP's own index, and the instructions from the label up to the JMP hold
\* no other jump and no DIV or MOD, run never ends: it is running without an
\* error, and the program counter stays between the label and the JMP.
C15_BackwardJmpLoops ==
    \A i \in 1..Len(fetched) :
        (BackwardJmpAt(i) /\ StraightLoopAt(i))
            => /\ state = "running"
               /\ error = "none"
               /\ program_counter \in labels[program[fetched[i] + 1].arg]..fetched[i]
               /\ program_counter < Len(program)

\* C15 witness: LoopForever has gone three times through its loop and is
\* about to go on.
C15_Witness ==
    /\ source = LoopForever
    /\ state = "running"
    /\ fetched = <<0, 1, 2, 0, 1, 2, 0, 1, 2>>
    /\ program_counter = 0
    /\ registers = [k \in {ACC, rA} |-> PyInt(One)]

\* Reference logic for the properties, bit by bit on sequences of bits.
BitsAnd(a, b) == AsSeq([i \in 1..Len(a) |-> a[i] * b[i]])

BitsOr(a, b) == AsSeq([i \in 1..Len(a) |-> a[i] + b[i] - a[i] * b[i]])

BitsXor(a, b) == AsSeq([i \in 1..Len(a) |-> (a[i] + b[i]) % 2])

OneBits(n) == AsSeq([i \in 1..n |-> 1])

\* 2^Len(a) - 1 - a: the c with c + a = 2^Len(a) - 1.
BitsComplement(a) == AsSeq([i \in 1..Len(a) |-> 1 - a[i]])

LogicalClasses == {"AndCommand", "OrCommand", "XorCommand", "AndnCommand",
                   "OrnCommand", "XornCommand"}

\* C16: with a the value of ACC and v the value of the operand, both words,
\* AND, OR and XOR leave in ACC the bitwise and, or and exclusive or of a
\* and v, and ANDN, ORN and XORN that of a and 2^32 - 1 - v; the result is a
\* word, nothing but ACC changes and run goes on to the next instruction.
\* test_logical_operations ends with 16#F0 AND 16#0F = 0,
\* 16#F0 ANDN 16#0F = 240, 16#F0 OR 16#0F = 255, 16#F0 ORN 16#0F =
\* 4294967280, 16#F0 XOR 16#FF = 15 and 16#F0 XORN 16#FF = 4294967280.
C16_Logical ==
    [][/\ (Stepping /\ CurrentCommand.cls \in LogicalClasses)
          => LET cls == CurrentCommand.cls
                 a == BitsOf(registers[ACC].v, 32)
                 v == OperandBits(registers, CurrentCommand.arg)
                 c == BitsComplement(v)
                 r == BitsOf(registers'[ACC].v, 32)
             IN  /\ IsWord32(registers[ACC])
                 /\ Len(v) = 32
                 /\ IsWord32(registers'[ACC])
                 /\ BitsAdd(c, v) = OneBits(32)
                 /\ state' = "running"
                 /\ program_counter' = program_counter + 1
                 /\ registers' = Put(registers, ACC, registers'[ACC])
                 /\ cls = "AndCommand" => r = BitsAnd(a, v)
                 /\ cls = "OrCommand" => r = BitsOr(a, v)
                 /\ cls = "XorCommand" => r = BitsXor(a, v)
                 /\ cls = "AndnCommand" => r = BitsAnd(a, c)
                 /\ cls = "OrnCommand" => r = BitsOr(a, c)
                 /\ cls = "XornCommand" => r = BitsXor(a, c)
       /\ (source = test_logical_operations /\ state' = "returned")
          => /\ registers'[rA] = PyInt(Word(0, 0, 0, 0))
             /\ registers'[rB] = PyInt(Word(0, 0, 0, 240))
             /\ registers'[rC] = PyInt(Word(0, 0, 0, 255))
             /\ registers'[rD] = PyInt(Word(255, 255, 255, 240))
             /\ registers'[rE] = PyInt(Word(0, 0, 0, 15))
             /\ registers'[rF] = PyInt(Word(255, 255, 255, 240))
      ]_vars

\* C16 witness: LD 16#80000000 / XORN 65537 / ST A has run: A holds
\* 16#80000000 XOR 16#FFFEFFFE = 16#7FFEFFFE.
C16_Witness ==
    /\ source = JoinLines(<<Instr(mLD, h80000000), Instr(mXORN, t65537), Instr(mST, rA)>>)
    /\ state = "returned"
    /\ registers[rA] = PyInt(Word(127, 254, 255, 254))
    /\ registers[ACC] = registers[rA]

\* Every jump of the program names a label of the label table.
AllLabelsDefined ==
    \A i \in 1..Len(program) :
        program[i].cls \in JumpClasses => program[i].arg \in DOMAIN labels

\* C17: whenever the loop of run is at its condition, the program counter
\* is in 0..Len(program), and when it is below Len(program) the instruction
\* the loop executes next is the one at that index, counted from the start
\* of the program; every label is an index in 0..Len(program), so a jump
\* leaves such an index, and the -1 a jump to index 0 assigns is incremented
\* before the loop reads the program counter again.  This holds for the
\* programs whose jumps all name existing labels, and for the others too (a
\* jump to a missing label leaves the program counter where it was).
C17_CounterInRange ==
    /\ [](state \in {"running", "returned", "run_failed"}
            => /\ program_counter \in 0..Len(program)
               /\ \A l \in DOMAIN labels : labels[l] \in 0..Len(program))
    /\ [][Stepping
            => /\ program_counter \in 0..(Len(program) - 1)
               /\ FetchIndex = program_counter + 1
               /\ fetched' = Append(fetched, program_counter)
               /\ (state' = "running" /\ AllLabelsDefined)
                     => program_counter' \in 0..Len(program)
         ]_vars

\* C17 witness: L: LD 1 / ST A / JMP L has gone round once: the JMP at
\* index 2 has set the program counter to -1, the loop is at its condition
\* with the program counter 0, and no fetch was at -1.
C17_Witness ==
    /\ source = LoopForever
    /\ AllLabelsDefined
    /\ state = "running"
    /\ fetched = <<0, 1, 2>>
    /\ program[3] = Command("JmpCommand", lL)
    /\ labels[lL] = 0
    /\ program_counter = 0

\* Every jump of the program that names an existing label names one whose
\* index is greater than the jump's own.
ForwardJumpsOnly ==
    \A i \in 1..Len(program) :
        (program[i].cls \in JumpClasses /\ program[i].arg \in DOMAIN labels)
            => labels[program[i].arg] > i - 1

\* The classes of command_map.
CommandClasses ==
    {"LoadCommand", "StoreCommand", "NotCommand"} \cup BinaryClasses
        \cup NotBinaryClasses \cup ConditionalClasses \cup JumpClasses

\* C18: in a program whose jumps all go forward, every instruction executed
\* either ends run with an error or leaves the program counter greater than
\* it was; so the indices fetched by a call of run increase strictly (no
\* instruction is executed twice), a call executes at most Len(program)
\* instructions, and run ends: while the program counter is below
\* Len(program) there is an instruction to execute, and once it is not, run
\* returns.  A further call of run after an error executes the failing
\* instruction once more, and nothing else.  Under FairSpec every call of
\* run on a control-flow program whose jumps all go forward does end.
C18_ForwardTerminates ==
    /\ [][(Stepping /\ ForwardJumpsOnly)
            => \/ state' = "run_failed" /\ program_counter' = program_counter
               \/ state' = "running" /\ program_counter' > program_counter
         ]_vars
    /\ [][(state = "running" /\ program_counter >= Len(program))
            => state' = "returned"
         ]_vars
    /\ []((state = "running" /\ program_counter < Len(program))
            => /\ program_counter >= 0
               /\ CurrentCommand.cls \in CommandClasses)
    /\ []((state \in {"running", "returned", "run_failed"} /\ ForwardJumpsOnly)
            => /\ \A i \in 1..(Len(fetched) - 1) : fetched[i] <= fetched[i + 1]
               /\ Len(fetched) <= Len(program) + runs - 1
               /\ runs = 1 =>
                     /\ \A i \in 1..(Len(fetched) - 1) : fetched[i] < fetched[i + 1]
                     /\ Len(fetched) <= Len(program))
    /\ (state = "running" /\ ForwardJumpsOnly /\ source \in LivePrograms)
          ~> (state \in {"returned", "run_failed"})

\* C18 witness: JMPNC L / LD 1 / L: ST B has run to its end: the jump was
\* taken forward, two of the three instructions were executed, once each.
C18_Witness ==
    /\ source = JoinLines(<<Instr(mJMPNC, lL), Instr(mLD, t1),
                            Labelled(lL, Instr(mST, rB))>>)
    /\ ForwardJumpsOnly
    /\ state = "returned"
    /\ runs = 1
    /\ fetched = <<0, 2>>
    /\ program_counter = 3

\* C19: in every state (before the first instruction, after every
\* instruction executed, after run has ended) every value of the register
\* table is an int in 0..2^32-1, and an S or R that has written leaves the
\* int 1 or 0 in its variable: the True or False it assigns is masked by
\* debug_registers before the instruction is over.
C19_AllRegistersWords ==
    /\ [](\A k \in DOMAIN registers : IsWord32(registers[k]))
    /\ [][(Stepping /\ CurrentCommand.cls \in ConditionalClasses
              /\ registers[ACC].v # Zero)
            => registers'[CurrentCommand.arg] =
                   IF CurrentCommand.cls = "SCommand" THEN PyInt(One) ELSE PyInt(Zero)
         ]_vars

\* C19 witness: in test_set_reset S X has been executed with ACC = 1 and X
\* holds the int 1, R Y is next.
C19_Witness ==
    /\ source = test_set_reset
    /\ state = "running"
    /\ fetched = <<0, 1>>
    /\ LastCommand = Command("SCommand", rX)
    /\ registers[rX].t = "int"
    /\ registers[rX].v = One

\* The exception an instruction of the class raises when it raises: DIV and
\* MOD divide by zero, a jump misses its label.
FailureOf(cls) ==
    CASE cls \in {"DivCommand", "ModCommand"} -> "ZeroDivisionError"
      [] cls \in JumpClasses -> "KeyError"
      [] OTHER -> "none"

\* C20: a call of run changes neither the program counter nor the register
\* table.  Called again after it returned, run finds the program counter at
\* the end of the program and returns at once: no instruction is fetched,
\* registers and program counter stay.  An instruction that raises leaves
\* the program counter at itself and the registers as it found them, and
\* what it raises goes with its class: ZeroDivisionError for DIV and MOD,
\* KeyError for a jump.  So run, called again after it raised, finds the
\* program counter at the instruction that raised, the last one fetched,
\* with the error of that instruction's class recorded; the one
\* instruction it executes is that one, which raises the error of its
\* class again and leaves registers and program counter as they were.
C20_RunAgain ==
    /\ [][(state \in {"loaded", "returned", "run_failed"} /\ state' = "running")
            => /\ program_counter' = program_counter
               /\ registers' = registers
               /\ fetched' = fetched
               /\ program' = program
               /\ labels' = labels
         ]_vars
    /\ [][(state = "returned" /\ state' = "running")
            => program_counter >= Len(program)
         ]_vars
    /\ [][(state = "running" /\ program_counter >= Len(program))
            => /\ state' = "returned"
               /\ program_counter' = program_counter
               /\ registers' = registers
               /\ fetched' = fetched
         ]_vars
    /\ [][(Stepping /\ state' = "run_failed")
            => /\ error' = FailureOf(CurrentCommand.cls)
               /\ error' # "none"
               /\ program_counter' = program_counter
               /\ registers' = registers
         ]_vars
    /\ [][(state = "run_failed" /\ state' = "running")
            => /\ program_counter \in 0..(Len(program) - 1)
               /\ fetched # <<>>
               /\ fetched[Len(fetched)] = program_counter
               /\ error = FailureOf(CurrentCommand.cls)
               /\ error # "none"
         ]_vars
    /\ [][(Stepping /\ runs >= 2)
            => /\ fetched # <<>>
               /\ fetched[Len(fetched)] = program_counter
               /\ fetched' = Append(fetched, program_counter)
               /\ state' = "run_failed"
               /\ error' = FailureOf(CurrentCommand.cls)
               /\ error' # "none"
               /\ program_counter' = program_counter
               /\ registers' = registers
         ]_vars

\* C20 witness: LD 1 / JMP L, with no label L, has failed twice: the second
\* call of run has executed the JMP again and nothing else, and has raised
\* KeyError with the program counter at the JMP and ACC = 1.
C20_Witness ==
    /\ source = JoinLines(<<Instr(mLD, t1), Instr(mJMP, lL)>>)
    /\ runs = 2
    /\ state = "run_failed"
    /\ error = "KeyError"
    /\ fetched = <<0, 1, 1>>
    /\ program_counter = 1
    /\ registers = [k \in {ACC} |-> PyInt(One)]

====
